---- MODULE Spec2Model ----
(***************************************************************************)
(* A model of telegram-korean-search: the persistent store with its        *)
(* migrations and metadata, the search engine with its keyset pagination,  *)
(* the flood-wait retry wrapper, the concurrent collection runs, the use   *)
(* of the store mutex, and connect with the login commands.                *)
(*                                                                         *)
(* Strings are sequences of one-character strings, so that substring,      *)
(* LIKE and trigram matching are computed and not assumed.                 *)
(***************************************************************************)
EXTENDS Integers, Sequences, FiniteSets, Bags, TLC

VARIABLES db, last, pg, rt, runs, auth, steps, lk, call

vars == <<db, last, pg, rt, runs, auth, steps, lk, call>>

\* Option<T>: None, or Some(x) holding x.
None == <<>>

Some(x) == <<x>>

Get(o) == o[1]

(***************************************************************************)
(* Bounds of the model.                                                    *)
(***************************************************************************)
MaxRows == 3
MaxBatch == 2
MaxLimit == 2
MaxRuns == 2
MaxTasks == 4
MaxLockTasks == 2
MaxStepRuns == 2
MaxSorted == 3
MaxRunners == 3
MaxConnects == 2

(***************************************************************************)
(* Program constants.                                                      *)
(***************************************************************************)
DEFAULT_PAGE_SIZE == 30
MAX_FLOOD_RETRIES == 2
BATCH_SIZE == 100
DefaultFloodSecs == 5
SemaphorePermits == 3
FtsMinChars == 3
LoginTimeoutSecs == 15
ProbeTimeoutSecs == 5

(***************************************************************************)
(* Input domains.                                                          *)
(***************************************************************************)
ChatIds == {1, 2}

s_abc == <<"a", "b", "c">>
s_Ab_c == <<"A", "b", " ", "c">>

Queries ==
    { <<"a", "b", "c">>,                 \* one long term: trigram path
      <<"a", "b">>,                      \* one short term: substring scan
      <<"A", "b">>,
      <<"b", "c", " ", "a", "b", "c">>,  \* a short and a long term
      <<" ", "b", " ", "c", " ">>,       \* two short terms, surrounding blanks
      <<"a", "b", "c", "d">>,            \* long term that occurs nowhere
      <<" ">> }                          \* nothing but whitespace

(***************************************************************************)
(* Text helpers.                                                           *)
(***************************************************************************)
\* char::is_whitespace, on the characters in use.
IsWhitespace(c) == c \in {" ", "\t", "\n", "\r"}

\* Case folding of one character (ASCII letters of the alphabet in use).
Fold(c) ==
    CASE c = "A" -> "a"
      [] c = "B" -> "b"
      [] c = "C" -> "c"
      [] OTHER -> c

FoldStr(s) == [i \in 1..Len(s) |-> Fold(s[i])]

RECURSIVE strip_whitespace(_)
strip_whitespace(text) ==
    IF text = <<>> THEN <<>>
    ELSE IF IsWhitespace(Head(text)) THEN strip_whitespace(Tail(text))
    ELSE <<Head(text)>> \o strip_whitespace(Tail(text))

\* str::split_whitespace: the maximal runs of non-whitespace characters.
RECURSIVE SplitFrom(_, _, _)
SplitFrom(s, i, cur) ==
    IF i > Len(s) THEN (IF cur = <<>> THEN <<>> ELSE <<cur>>)
    ELSE IF IsWhitespace(s[i])
         THEN (IF cur = <<>> THEN <<>> ELSE <<cur>>) \o SplitFrom(s, i + 1, <<>>)
         ELSE SplitFrom(s, i + 1, Append(cur, s[i]))

split_whitespace(s) == SplitFrom(s, 1, <<>>)

RECURSIVE TrimStart(_)
TrimStart(s) ==
    IF s # <<>> /\ IsWhitespace(Head(s)) THEN TrimStart(Tail(s)) ELSE s

RECURSIVE TrimEnd(_)
TrimEnd(s) ==
    IF s # <<>> /\ IsWhitespace(s[Len(s)])
    THEN TrimEnd(SubSeq(s, 1, Len(s) - 1)) ELSE s

trim(s) == TrimEnd(TrimStart(s))

\* s contains t as a contiguous, literal (case-sensitive) substring.
Contains(s, t) ==
    \E i \in 0..(Len(s) - Len(t)) : SubSeq(s, i + 1, i + Len(t)) = t

\* SQLite's LIKE: % matches any run, _ any one character, letters match
\* without regard to ASCII case; no ESCAPE character is given.
RECURSIVE LikeMatch(_, _)
LikeMatch(p, s) ==
    IF p = <<>> THEN s = <<>>
    ELSE IF Head(p) = "%"
         THEN LikeMatch(Tail(p), s) \/ (s # <<>> /\ LikeMatch(p, Tail(s)))
         ELSE /\ s # <<>>
              /\ (Head(p) = "_" \/ Fold(Head(p)) = Fold(Head(s)))
              /\ LikeMatch(Tail(p), Tail(s))

\* m.text_plain LIKE '%' || ? || '%'
LikeClause(text, term) == LikeMatch(<<"%">> \o term \o <<"%">>, text)

\* The trigram tokenizer with case_sensitive 0: every window of 3 characters,
\* folded; a text of fewer than 3 characters has no token.
Trigrams(s) ==
    IF Len(s) < 3 THEN <<>>
    ELSE [i \in 1..(Len(s) - 2) |-> FoldStr(SubSeq(s, i, i + 2))]

\* An FTS5 phrase matches a document when the phrase's tokens occur at
\* consecutive positions of the document; a phrase without tokens matches
\* nothing.
PhraseMatch(phrase, text) ==
    LET q == Trigrams(phrase)
        d == Trigrams(text)
    IN  /\ q # <<>>
        /\ \E off \in 0..(Len(d) - Len(q)) :
              \A j \in 1..Len(q) : d[off + j] = q[j]


(***************************************************************************)
(* Search engine: the FTS5 query string.                                   *)
(***************************************************************************)
RECURSIVE EscapeQuotes(_)
EscapeQuotes(term) ==
    IF term = <<>> THEN <<>>
    ELSE (IF Head(term) = "\"" THEN <<"\"", "\"">> ELSE <<Head(term)>>)
         \o EscapeQuotes(Tail(term))

RECURSIVE JoinQuoted(_)
JoinQuoted(terms) ==
    IF terms = <<>> THEN <<>>
    ELSE <<"\"">> \o EscapeQuotes(Head(terms)) \o <<"\"">>
         \o (IF Len(terms) > 1 THEN <<" ">> ELSE <<>>)
         \o JoinQuoted(Tail(terms))

build_fts_query(query) == JoinQuoted(split_whitespace(query))

\* What FTS5 reads back from a query string: the quoted phrases, with ""
\* standing for one quote; phrases side by side are AND-ed.
RECURSIVE FtsParse(_, _, _, _)
FtsParse(s, i, inq, cur) ==
    IF i > Len(s) THEN <<>>
    ELSE IF ~inq
         THEN FtsParse(s, i + 1, s[i] = "\"", <<>>)
         ELSE IF s[i] # "\""
              THEN FtsParse(s, i + 1, TRUE, Append(cur, s[i]))
              ELSE IF i < Len(s) /\ s[i + 1] = "\""
                   THEN FtsParse(s, i + 2, TRUE, Append(cur, "\""))
                   ELSE <<cur>> \o FtsParse(s, i + 1, FALSE, <<>>)

\* messages_fts MATCH ?
FtsMatch(text, fts_query) ==
    LET phrases == FtsParse(fts_query, 1, FALSE, <<>>)
    IN  \A j \in 1..Len(phrases) : PhraseMatch(phrases[j], text)

(***************************************************************************)
(* Store: the database behind one connection.                              *)
(*   chats, messages : the tables, as functions of their primary keys      *)
(*   fts             : the entries of the messages_fts index (external     *)
(*                     content), a bag of (rowid, indexed text)            *)
(*   meta            : app_meta                                            *)
(*   foreign_keys    : PRAGMA foreign_keys                                 *)
(*   in_txn          : a BEGIN without its COMMIT                          *)
(*   has_chats       : the table chats exists                              *)
(*   chats_new       : the rows of the table chats_new, if it exists       *)
(* A message row's rowid is never reused (rows are never deleted), so the  *)
(* row's primary key stands for it.                                        *)
(***************************************************************************)
NoRows == [k \in {} |-> 0]

Put(f, k, v) == [x \in (DOMAIN f) \cup {k} |-> IF x = k THEN v ELSE f[x]]

NewConnection ==
    [chats |-> NoRows, messages |-> NoRows, fts |-> EmptyBag, meta |-> NoRows,
     sync_state |-> NoRows,
     foreign_keys |-> FALSE, in_txn |-> FALSE, has_fts |-> FALSE,
     has_chats |-> TRUE, chats_new |-> None]

ChatTypes == {"group", "supergroup", "channel", "dm"}

Key(msg) == <<msg.chat_id, msg.message_id>>

configure(conn) == [conn EXCEPT !.foreign_keys = TRUE]

\* PRAGMA foreign_keys is a no-op inside a transaction.
SetForeignKeys(d, on) == IF d.in_txn THEN d ELSE [d EXCEPT !.foreign_keys = on]

DigitValue(ch) ==
    CASE ch = "0" -> 0 [] ch = "1" -> 1 [] ch = "2" -> 2 [] ch = "3" -> 3
      [] ch = "4" -> 4 [] ch = "5" -> 5 [] ch = "6" -> 6 [] ch = "7" -> 7
      [] ch = "8" -> 8 [] ch = "9" -> 9 [] OTHER -> -1

RECURSIVE ParseDigits(_, _, _)
ParseDigits(s, i, acc) ==
    IF i > Len(s) THEN Some(acc)
    ELSE IF DigitValue(s[i]) < 0 THEN None
    ELSE ParseDigits(s, i + 1, acc * 10 + DigitValue(s[i]))

\* str::parse::<i64>: an optional sign and at least one digit, nothing else.
parse_i64(s) ==
    IF s = <<>> THEN None
    ELSE IF s[1] \in {"+", "-"}
    THEN LET p == IF Len(s) = 1 THEN None ELSE ParseDigits(Tail(s), 1, 0)
         IN  IF p = None THEN None
             ELSE IF s[1] = "-" THEN Some(0 - Get(p)) ELSE p
    ELSE ParseDigits(s, 1, 0)

\* app_meta values are TEXT; a missing row or a value that does not parse
\* reads as version 1.
get_schema_version(d) ==
    IF "schema_version" \notin DOMAIN d.meta THEN 1
    ELSE LET p == parse_i64(d.meta["schema_version"])
         IN  IF p = None THEN 1 ELSE Get(p)

\* INSERT INTO messages_fts(messages_fts) VALUES('rebuild')
FtsRebuild(d) ==
    SetToBag({[rowid |-> k, text_plain |-> d.messages[k].text_plain] :
                 k \in DOMAIN d.messages})

\* A step returns at once when the stored version has reached its number.
StepApplies(d, v) == ~(get_schema_version(d) >= v)

migrate_to_fts5(d) ==
    IF ~StepApplies(d, 2) THEN d
    ELSE LET d1 == [d EXCEPT !.has_fts = TRUE]
         IN  [d1 EXCEPT !.fts = FtsRebuild(d1),
                        !.meta = Put(d1.meta, "schema_version", <<"2">>)]

\* The statements of migrate_add_dm_chat_type after its version check, each
\* committed on its own: foreign keys off, drop a leftover chats_new, create
\* chats_new, copy the rows of chats, drop chats, rename chats_new to
\* chats, write version 3, foreign keys on.
Step3Statements == 8

Step3Stmt(d, n) ==
    CASE n = 1 -> SetForeignKeys(d, FALSE)
      [] n = 2 -> [d EXCEPT !.chats_new = None]
      [] n = 3 -> [d EXCEPT !.chats_new = Some(NoRows)]
      [] n = 4 -> [d EXCEPT !.chats_new = Some([c \in DOMAIN d.chats |-> d.chats[c]])]
      [] n = 5 -> [d EXCEPT !.chats = NoRows, !.has_chats = FALSE]
      [] n = 6 -> [d EXCEPT !.chats = Get(d.chats_new), !.has_chats = TRUE,
                            !.chats_new = None]
      [] n = 7 -> [d EXCEPT !.meta = Put(d.meta, "schema_version", <<"3">>)]
      [] n = 8 -> SetForeignKeys(d, TRUE)

RECURSIVE Step3From(_, _)
Step3From(d, n) ==
    IF n > Step3Statements THEN d ELSE Step3From(Step3Stmt(d, n), n + 1)

migrate_add_dm_chat_type(d) ==
    IF ~StepApplies(d, 3) THEN d ELSE Step3From(d, 1)

\* CREATE TABLE IF NOT EXISTS with DROP TABLE IF EXISTS before it.
create_base_tables_anew(d) ==
    [d EXCEPT !.chats = NoRows, !.messages = NoRows, !.meta = NoRows]

\* CREATE TABLE IF NOT EXISTS chats, messages, sync_state, app_meta: a table
\* that exists is left as it is, a missing one is created empty; a new
\* connection has them empty.
create_base_tables(d) ==
    IF d.has_chats THEN d ELSE [d EXCEPT !.has_chats = TRUE, !.chats = NoRows]

run_migrations(d) ==
    migrate_add_dm_chat_type(migrate_to_fts5(create_base_tables(d)))

\* The steps whose body a call of run_migrations executes on d.
StepsRun(d) ==
    LET d1 == create_base_tables(d)
    IN  {v \in {2} : StepApplies(d1, v)}
            \cup {v \in {3} : StepApplies(migrate_to_fts5(d1), v)}

StepsAfter(st, d) == [v \in {2, 3} |-> st[v] + IF v \in StepsRun(d) THEN 1 ELSE 0]

\* app_meta, one row per key.  io is whether SQLite carries the statement
\* out (it does not on a full disk, an I/O error or a busy database).
get_meta(d, key) == IF key \in DOMAIN d.meta THEN Some(d.meta[key]) ELSE None

set_meta(d, key, value, io) ==
    IF io THEN [ok |-> TRUE, db |-> [d EXCEPT !.meta = Put(d.meta, key, value)]]
    ELSE [ok |-> FALSE, db |-> d]

delete_meta(d, key, io) ==
    IF io
    THEN [ok |-> TRUE,
          db |-> [d EXCEPT !.meta = [k \in (DOMAIN d.meta) \ {key} |-> d.meta[k]]]]
    ELSE [ok |-> FALSE, db |-> d]

\* Store::open on a new database file.
OpenStore == run_migrations(configure(NewConnection))

\* An upsert that leaves a stored row as it is.
upsert_chat_insert_only(d, chat) ==
    IF chat.chat_type \notin ChatTypes \/ chat.chat_id \in DOMAIN d.chats
    THEN [ok |-> chat.chat_type \in ChatTypes, db |-> d]
    ELSE [ok |-> TRUE,
          db |-> [d EXCEPT !.chats = Put(d.chats, chat.chat_id,
                     [title |-> chat.title, chat_type |-> chat.chat_type,
                      username |-> chat.username,
                      access_hash |-> chat.access_hash,
                      is_excluded |-> chat.is_excluded])]]

upsert_chat(d, chat) ==
    IF chat.chat_type \notin ChatTypes
    THEN [ok |-> FALSE, db |-> d]
    ELSE IF chat.chat_id \in DOMAIN d.chats
    THEN [ok |-> TRUE,
          db |-> [d EXCEPT !.chats[chat.chat_id] =
                     [@ EXCEPT !.title = chat.title,
                               !.chat_type = chat.chat_type,
                               !.username = chat.username,
                               !.access_hash = chat.access_hash]]]
    ELSE [ok |-> TRUE,
          db |-> [d EXCEPT !.chats = Put(d.chats, chat.chat_id,
                     [title |-> chat.title, chat_type |-> chat.chat_type,
                      username |-> chat.username,
                      access_hash |-> chat.access_hash,
                      is_excluded |-> chat.is_excluded])]]

\* UPDATE chats SET is_excluded = ? WHERE chat_id = ?
set_chat_excluded(d, chat_id, excluded) ==
    IF chat_id \in DOMAIN d.chats
    THEN [d EXCEPT !.chats[chat_id].is_excluded = excluded]
    ELSE d

get_active_chats(d) == {c \in DOMAIN d.chats : ~d.chats[c].is_excluded}

\* SELECT ... FROM sync_state WHERE chat_id = ?
get_sync_state(d, chat_id) ==
    IF chat_id \in DOMAIN d.sync_state THEN Some(d.sync_state[chat_id]) ELSE None

StoredRow(msg) ==
    [timestamp |-> msg.timestamp, text_plain |-> msg.text_plain,
     text_stripped |-> msg.text_stripped, link |-> msg.link]

ForeignKeyUnchecked(d, msg) == FALSE

\* FOREIGN KEY (chat_id) REFERENCES chats(chat_id), enforced while the
\* connection's foreign_keys pragma is on.
ForeignKeyFails(d, msg) == d.foreign_keys /\ msg.chat_id \notin DOMAIN d.chats

ConflictReplace(old, new) == new

\* INSERT OR IGNORE: on a primary-key conflict the stored row stays.
ConflictIgnore(old, new) == old

\* The INSERT OR IGNORE statement for one row: err (the statement failed,
\* nothing written), or the table afterwards and changes().
InsertOrIgnore(d, msg) ==
    IF Key(msg) \in DOMAIN d.messages
    THEN LET kept == ConflictIgnore(d.messages[Key(msg)], StoredRow(msg))
         IN  [err |-> FALSE,
              changes |-> IF kept = d.messages[Key(msg)] THEN 0 ELSE 1,
              db |-> [d EXCEPT !.messages[Key(msg)] = kept]]
    ELSE IF ForeignKeyFails(d, msg)
    THEN [err |-> TRUE, changes |-> 0, db |-> d]
    ELSE [err |-> FALSE, changes |-> 1,
          db |-> [d EXCEPT !.messages = Put(d.messages, Key(msg), StoredRow(msg))]]

IndexAlways(changes) == TRUE

\* if changes > 0: the row is new and gets its FTS row.
IndexNewRow(changes) == changes > 0

FtsInsert(d, rowid, text) ==
    [d EXCEPT !.fts = @ (+) SetToBag({[rowid |-> rowid, text_plain |-> text]})]

\* The loop of insert_messages_batch from row i on; an error returns at once
\* and leaves the transaction open, the end of the loop commits.
RECURSIVE InsertRows(_, _, _)
InsertRows(d, messages, i) ==
    IF i > Len(messages)
    THEN [ok |-> TRUE, db |-> [d EXCEPT !.in_txn = FALSE]]
    ELSE LET r == InsertOrIgnore(d, messages[i])
         IN  IF r.err THEN [ok |-> FALSE, db |-> d]
             ELSE IF IndexNewRow(r.changes)
                  THEN InsertRows(FtsInsert(r.db, Key(messages[i]),
                                            messages[i].text_plain),
                                  messages, i + 1)
                  ELSE InsertRows(r.db, messages, i + 1)

\* BEGIN fails when a transaction is already open.
insert_messages_batch(d, messages) ==
    IF d.in_txn THEN [ok |-> FALSE, db |-> d]
    ELSE InsertRows([d EXCEPT !.in_txn = TRUE], messages, 1)

message_count(d) == Cardinality(DOMAIN d.messages)

fts_count(d) == BagCardinality(d.fts)


(***************************************************************************)
(* Store: the four search statements.  A result row is what the SELECT     *)
(* list names; the JOIN drops a message whose chat row is missing.         *)
(***************************************************************************)
Joined(d) ==
    {[message_id |-> k[2], chat_id |-> k[1],
      timestamp |-> d.messages[k].timestamp,
      text_plain |-> d.messages[k].text_plain,
      link |-> d.messages[k].link,
      chat_title |-> d.chats[k[1]].title] :
        k \in {x \in DOMAIN d.messages : x[1] \in DOMAIN d.chats}}

\* SELECT rowid FROM messages_fts WHERE messages_fts MATCH ?
FtsRowids(d, fts_query) ==
    {e.rowid : e \in {x \in BagToSet(d.fts) : FtsMatch(x.text_plain, fts_query)}}

LikeAll(text, terms) == \A j \in 1..Len(terms) : LikeClause(text, terms[j])

IsExcluded(d, r) == d.chats[r.chat_id].is_excluded

\* The cursor clause of the two global statements.
AfterCursor(r, c) ==
    \/ r.timestamp < c.timestamp
    \/ (r.timestamp = c.timestamp /\ r.chat_id > c.chat_id)
    \/ (r.timestamp = c.timestamp /\ r.chat_id = c.chat_id
        /\ r.message_id > c.message_id)

\* The cursor clause of the two in-chat statements.
AfterCursorInChat(r, c) ==
    \/ r.timestamp < c.timestamp
    \/ (r.timestamp = c.timestamp /\ r.message_id > c.message_id)

\* ORDER BY m.timestamp DESC, m.message_id ASC, m.chat_id ASC
OrderGlobalMessageFirst(a, b) ==
    \/ a.timestamp > b.timestamp
    \/ (a.timestamp = b.timestamp /\ a.message_id < b.message_id)
    \/ (a.timestamp = b.timestamp /\ a.message_id = b.message_id
        /\ a.chat_id < b.chat_id)

\* ORDER BY m.timestamp DESC, m.chat_id ASC, m.message_id ASC
OrderGlobal(a, b) ==
    \/ a.timestamp > b.timestamp
    \/ (a.timestamp = b.timestamp /\ a.chat_id < b.chat_id)
    \/ (a.timestamp = b.timestamp /\ a.chat_id = b.chat_id
        /\ a.message_id < b.message_id)

\* ORDER BY m.timestamp DESC, m.message_id ASC
OrderInChat(a, b) ==
    \/ a.timestamp > b.timestamp
    \/ (a.timestamp = b.timestamp /\ a.message_id < b.message_id)

RECURSIVE OrderBy(_, _)
OrderBy(S, in_chat) ==
    IF S = {} THEN <<>>
    ELSE LET first == CHOOSE x \in S : \A y \in S \ {x} :
                          IF in_chat THEN OrderInChat(x, y) ELSE OrderGlobal(x, y)
         IN  <<first>> \o OrderBy(S \ {first}, in_chat)

\* LIMIT n; a negative n is no limit.
Limit(rows, n) ==
    IF n < 0 \/ n >= Len(rows) THEN rows ELSE SubSeq(rows, 1, n)

WhereFts(d, r, fts_query, cursor) ==
    /\ <<r.chat_id, r.message_id>> \in FtsRowids(d, fts_query)
    /\ ~IsExcluded(d, r)
    /\ (cursor # None => AfterCursor(r, Get(cursor)))

WhereFtsInChat(d, r, fts_query, chat_id, cursor) ==
    /\ <<r.chat_id, r.message_id>> \in FtsRowids(d, fts_query)
    /\ r.chat_id = chat_id
    /\ ~IsExcluded(d, r)
    /\ (cursor # None => AfterCursorInChat(r, Get(cursor)))

WhereLike(d, r, terms, cursor) ==
    /\ LikeAll(r.text_plain, terms)
    /\ ~IsExcluded(d, r)
    /\ (cursor # None => AfterCursor(r, Get(cursor)))

WhereLikeInChatAnyFlag(d, r, terms, chat_id, cursor) ==
    /\ LikeAll(r.text_plain, terms)
    /\ r.chat_id = chat_id
    /\ (cursor # None => AfterCursorInChat(r, Get(cursor)))

WhereLikeInChat(d, r, terms, chat_id, cursor) ==
    /\ LikeAll(r.text_plain, terms)
    /\ r.chat_id = chat_id
    /\ ~IsExcluded(d, r)
    /\ (cursor # None => AfterCursorInChat(r, Get(cursor)))

search_messages_fts(d, fts_query, cursor, limit) ==
    Limit(OrderBy({r \in Joined(d) : WhereFts(d, r, fts_query, cursor)}, FALSE),
          limit)

search_messages_fts_in_chat(d, fts_query, chat_id, cursor, limit) ==
    Limit(OrderBy({r \in Joined(d) :
                      WhereFtsInChat(d, r, fts_query, chat_id, cursor)}, TRUE),
          limit)

search_messages_like(d, terms, cursor, limit) ==
    IF terms = <<>> THEN <<>>
    ELSE Limit(OrderBy({r \in Joined(d) : WhereLike(d, r, terms, cursor)}, FALSE),
               limit)

search_messages_like_in_chat(d, terms, chat_id, cursor, limit) ==
    IF terms = <<>> THEN <<>>
    ELSE Limit(OrderBy({r \in Joined(d) :
                           WhereLikeInChat(d, r, terms, chat_id, cursor)}, TRUE),
               limit)

(***************************************************************************)
(* Search engine: search.  The scope is None (all chats) or Some(chat id).  *)
(***************************************************************************)
UseFtsAlways(tokens) == TRUE

\* tokens.iter().all(|t| t.chars().count() >= 3)
UseFts(tokens) == \A j \in 1..Len(tokens) : Len(tokens[j]) >= FtsMinChars

CursorOf(row) ==
    [timestamp |-> row.timestamp, chat_id |-> row.chat_id,
     message_id |-> row.message_id]

CursorOfDropped(messages, results, has_more) ==
    IF has_more THEN Some(CursorOf(messages[Len(messages)])) ELSE None

\* The cursor of the last kept row, when a row beyond the page was fetched.
NextCursor(messages, results, has_more) ==
    IF has_more /\ results # <<>> THEN Some(CursorOf(results[Len(results)])) ELSE None

Item(row) ==
    [message_id |-> row.message_id, chat_id |-> row.chat_id,
     timestamp |-> row.timestamp, text |-> row.text_plain,
     link |-> row.link, chat_title |-> row.chat_title]

NoResult == [items |-> <<>>, next_cursor |-> None]

\* A page counts as followed by another as soon as it is full.
HasMoreWhenFull(messages, limit) == Len(messages) >= limit

\* messages.len() > limit: the row fetched beyond the page is there.
HasMore(messages, limit) == Len(messages) > limit

search(d, query, scope, cursor, limit_opt) ==
    LET limit == IF limit_opt = None THEN DEFAULT_PAGE_SIZE ELSE Get(limit_opt)
        query_trimmed == trim(query)
        tokens == split_whitespace(query_trimmed)
        messages ==
            IF UseFts(tokens)
            THEN IF scope = None
                 THEN search_messages_fts(d, build_fts_query(query_trimmed),
                                          cursor, limit + 1)
                 ELSE search_messages_fts_in_chat(d, build_fts_query(query_trimmed),
                                                  Get(scope), cursor, limit + 1)
            ELSE IF scope = None
                 THEN search_messages_like(d, tokens, cursor, limit + 1)
                 ELSE search_messages_like_in_chat(d, tokens, Get(scope), cursor,
                                                   limit + 1)
        has_more == HasMore(messages, limit)
        results == IF has_more THEN SubSeq(messages, 1, limit) ELSE messages
    IN  IF query_trimmed = <<>> \/ tokens = <<>> THEN NoResult
        ELSE [items |-> [j \in 1..Len(results) |-> Item(results[j])],
              next_cursor |-> NextCursor(messages, results, has_more)]


(***************************************************************************)
(* Idle values of the parts a specification leaves alone.                  *)
(***************************************************************************)
PgIdle ==
    [open |-> FALSE, query |-> <<>>, scope |-> None, limit |-> None,
     cursor |-> None, items |-> <<>>, pages |-> 0, done |-> FALSE,
     given |-> None, page |-> <<>>]

LastNone ==
    [op |-> "none", ok |-> TRUE, dup |-> FALSE, allDup |-> FALSE,
     diff |-> FALSE, unknown |-> FALSE]

LastOp(op, ok) == [LastNone EXCEPT !.op = op, !.ok = ok]

RtIdle ==
    [pc |-> "idle", oldest_id |-> None, attempt |-> 0, sleeps |-> <<>>,
     hist |-> <<>>, result |-> None]

RunIdle ==
    [pc |-> "idle", kind |-> "none", chats |-> <<>>, oldest |-> <<>>,
     tasks |-> <<>>, ready |-> <<>>, chats_done |-> 0, total |-> 0,
     sem |-> SemaphorePermits, titles |-> <<>>, events |-> <<>>,
     progress |-> None]

RunsIdle == [r \in 1..MaxRuns |-> RunIdle]

\* The login flow with the application running and nothing connected.
ConnNone == [was_authenticated |-> FALSE, had_file |-> FALSE, probe |-> "none"]

AuthIdle ==
    [pc |-> "idle", client |-> None, runner |-> None, probe_runner |-> "none",
     session_file |-> "none", login_token |-> None, password_token |-> None,
     held |-> None, timer |-> None, completed |-> FALSE, conn |-> ConnNone,
     result |-> None, handle_lock |-> FALSE, live |-> {}, made |-> 0,
     cmds |-> [t \in 1..MaxConnects |-> [pc |-> "idle", local |-> None]]]

\* How often the body of each migration step has run on the database.
StepsNone == [v \in {2, 3} |-> 0]

StepsOfOpenStore == StepsAfter(StepsNone, configure(NewConnection))

LkTaskIdle == [fn |-> "none", path |-> <<>>, pc |-> 0]

LkIdle == [holder |-> None, task |-> [t \in 1..MaxLockTasks |-> LkTaskIdle]]

\* No pure function applied yet.
CallNone == [fn |-> "none", args |-> <<>>, out |-> <<>>]

(***************************************************************************)
(* Specification Spec: the store's operations and paged searches.          *)
(*   last : the most recent store operation and what it met                *)
(*   pg   : a paging session, kept while the store is unchanged            *)
(***************************************************************************)
ChatRow(c, title, type, excluded) ==
    [chat_id |-> c, title |-> title, chat_type |-> type, username |-> None,
     access_hash |-> None, is_excluded |-> excluded]

ChatRowInputs == {ChatRow(c, <<"c">>, "supergroup", e) : c \in ChatIds, e \in BOOLEAN}

MessageRow(c, m, ts, text) ==
    [message_id |-> m, chat_id |-> c, timestamp |-> ts, text_plain |-> text,
     text_stripped |-> strip_whitespace(text), link |-> None]

\* Rows a caller hands to the store: two versions of one message (same key,
\* other attributes), equal timestamps within a chat and across chats, and
\* texts that differ in case and whitespace.
MessageRowInputs ==
    { MessageRow(1, 1, 1000, s_abc),
      MessageRow(1, 1, 1001, s_Ab_c),
      MessageRow(1, 2, 1000, s_Ab_c),
      MessageRow(2, 1, 1000, s_abc),
      MessageRow(2, 2, 1001, s_abc) }

BatchInputs == UNION {[1..n -> MessageRowInputs] : n \in 0..MaxBatch}

LimitInputs == {None} \cup {Some(n) : n \in 0..MaxLimit}

ScopeInputs == {None} \cup {Some(c) : c \in ChatIds}

Init ==
    /\ db = OpenStore
    /\ last = LastNone
    /\ pg = PgIdle
    /\ rt = RtIdle
    /\ runs = RunsIdle
    /\ auth = AuthIdle
    /\ steps = StepsOfOpenStore
    /\ lk = LkIdle
    /\ call = CallNone

UpsertChat(row) ==
    /\ ~pg.open
    /\ LET r == upsert_chat(db, row)
       IN  /\ db' = r.db
           /\ last' = LastOp("upsert_chat", r.ok)
    /\ UNCHANGED <<pg, rt, runs, auth, steps, lk, call>>

SetChatExcluded(c, excluded) ==
    /\ ~pg.open
    /\ db' = set_chat_excluded(db, c, excluded)
    /\ last' = LastOp("set_chat_excluded", TRUE)
    /\ UNCHANGED <<pg, rt, runs, auth, steps, lk, call>>

\* What the batch meets in the store it is inserted into.
BatchKeys(batch) == {Key(batch[i]) : i \in 1..Len(batch)}

RepeatsKey(d, batch) ==
    \/ \E i \in 1..Len(batch) : Key(batch[i]) \in DOMAIN d.messages
    \/ \E i, j \in 1..Len(batch) : i # j /\ Key(batch[i]) = Key(batch[j])

AllStored(d, batch) ==
    batch # <<>> /\ BatchKeys(batch) \subseteq DOMAIN d.messages

DiffersFromStored(d, batch) ==
    \E i \in 1..Len(batch) :
        /\ Key(batch[i]) \in DOMAIN d.messages
        /\ d.messages[Key(batch[i])] # StoredRow(batch[i])

HasUnknownChat(d, batch) ==
    \E i \in 1..Len(batch) : batch[i].chat_id \notin DOMAIN d.chats

InsertBatch(batch) ==
    /\ ~pg.open
    /\ LET r == insert_messages_batch(db, batch)
       IN  /\ message_count(r.db) <= MaxRows
           /\ db' = r.db
           /\ last' = [op |-> "insert_messages_batch", ok |-> r.ok,
                       dup |-> RepeatsKey(db, batch),
                       allDup |-> AllStored(db, batch),
                       diff |-> DiffersFromStored(db, batch),
                       unknown |-> HasUnknownChat(db, batch)]
    /\ UNCHANGED <<pg, rt, runs, auth, steps, lk, call>>

\* run_migrations called again on the open store.
Migrate ==
    /\ ~pg.open
    /\ db' = run_migrations(db)
    /\ steps' = StepsAfter(steps, db)
    /\ last' = LastOp("run_migrations", TRUE)
    /\ UNCHANGED <<pg, rt, runs, auth, lk, call>>

\* The first page of a search: no cursor.
SearchFirst(query, scope, limit_opt) ==
    /\ ~pg.open
    /\ LET r == search(db, query, scope, None, limit_opt)
       IN  pg' = [open |-> TRUE, query |-> query, scope |-> scope,
                  limit |-> limit_opt, cursor |-> r.next_cursor,
                  items |-> r.items, pages |-> 1,
                  done |-> r.next_cursor = None,
                  given |-> None, page |-> r.items]
    /\ last' = LastOp("search", TRUE)
    /\ UNCHANGED <<db, rt, runs, auth, steps, lk, call>>

\* The next page: the same query, scope and limit, the cursor just returned.
SearchNext ==
    /\ pg.open /\ ~pg.done
    /\ LET r == search(db, pg.query, pg.scope, pg.cursor, pg.limit)
       IN  pg' = [pg EXCEPT !.cursor = r.next_cursor,
                            !.items = pg.items \o r.items,
                            !.pages = pg.pages + 1,
                            !.done = r.next_cursor = None,
                            !.given = pg.cursor, !.page = r.items]
    /\ UNCHANGED <<db, last, rt, runs, auth, steps, lk, call>>

\* The caller drops the session.
SearchEnd ==
    /\ pg.open
    /\ pg' = PgIdle
    /\ UNCHANGED <<db, last, rt, runs, auth, steps, lk, call>>

Next ==
    \/ \E row \in ChatRowInputs : UpsertChat(row)
    \/ \E c \in ChatIds, e \in BOOLEAN : SetChatExcluded(c, e)
    \/ \E batch \in BatchInputs : InsertBatch(batch)
    \/ Migrate
    \/ \E q \in Queries, sc \in ScopeInputs, l \in LimitInputs : SearchFirst(q, sc, l)
    \/ SearchNext
    \/ SearchEnd

Spec == Init /\ [][Next]_vars

(***************************************************************************)
(* Properties of Spec.                                                     *)
(***************************************************************************)
EffectiveLimit(limit_opt) ==
    IF limit_opt = None THEN DEFAULT_PAGE_SIZE ELSE Get(limit_opt)

\* The ordered result of the session's query in one page that holds it all.
Unpaged == search(db, pg.query, pg.scope, None, Some(message_count(db) + 1)).items

IsPrefix(s, t) == Len(s) <= Len(t) /\ s = SubSeq(t, 1, Len(s))

NoRepeat(s) == \A i, j \in 1..Len(s) : i # j => s[i] # s[j]

\* C1: with a page limit >= 1 and an unchanged store, the pages fetched so
\* far are a prefix of the unpaged ordered result without a repeated message,
\* and once next_cursor is absent they are the whole of it.
C1_PaginationExactlyOnce ==
    (pg.open /\ EffectiveLimit(pg.limit) >= 1) =>
        /\ IsPrefix(pg.items, Unpaged)
        /\ NoRepeat(pg.items)
        /\ (pg.done => pg.items = Unpaged)

\* Three pages of one row each, all chats, trigram path.
C1_Witness ==
    /\ pg.open /\ pg.done /\ pg.pages >= 3 /\ Len(pg.items) >= 3
    /\ pg.limit = Some(1) /\ pg.scope = None
    /\ UseFts(split_whitespace(trim(pg.query)))

\* C2: no item of any page, with or without cursor, belongs to a chat whose
\* excluded flag is set.
C2_NoExcludedResult ==
    pg.open =>
        \A i \in 1..Len(pg.items) :
            /\ pg.items[i].chat_id \in DOMAIN db.chats
            /\ ~db.chats[pg.items[i].chat_id].is_excluded

\* The text of the stored message k contains every term of the query.
AllTermsOccur(k, query) ==
    LET terms == split_whitespace(query)
    IN  /\ terms # <<>>
        /\ \A j \in 1..Len(terms) : Contains(db.messages[k].text_plain, terms[j])

\* A search scoped to an excluded chat that stores a message with every term
\* of the query, on the substring-scan path.
C2_Witness ==
    /\ pg.open /\ pg.scope # None
    /\ Get(pg.scope) \in DOMAIN db.chats
    /\ db.chats[Get(pg.scope)].is_excluded
    /\ ~UseFts(split_whitespace(pg.query))
    /\ \E k \in DOMAIN db.messages : k[1] = Get(pg.scope) /\ AllTermsOccur(k, pg.query)

InScope(k) == pg.scope = None \/ Get(pg.scope) = k[1]

Searchable(k) ==
    /\ k[1] \in DOMAIN db.chats
    /\ ~db.chats[k[1]].is_excluded
    /\ InScope(k)

Returned(k) ==
    \E i \in 1..Len(pg.items) :
        pg.items[i].chat_id = k[1] /\ pg.items[i].message_id = k[2]

\* C3: a first page whose limit is at least the number of stored messages
\* holds every message of a non-excluded chat in scope whose text contains
\* every term of the query (a query of at least one term), on either path.
C3_SearchComplete ==
    (pg.open /\ pg.pages = 1 /\ EffectiveLimit(pg.limit) >= message_count(db)) =>
        \A k \in DOMAIN db.messages :
            (Searchable(k) /\ AllTermsOccur(k, pg.query)) => Returned(k)

\* A query with a short and a long term finds two messages.
C3_Witness ==
    /\ pg.open /\ pg.pages = 1 /\ EffectiveLimit(pg.limit) >= message_count(db)
    /\ LET terms == split_whitespace(pg.query)
       IN  /\ \E j \in 1..Len(terms) : Len(terms[j]) < FtsMinChars
           /\ \E j \in 1..Len(terms) : Len(terms[j]) >= FtsMinChars
    /\ Cardinality({k \in DOMAIN db.messages :
                       Searchable(k) /\ AllTermsOccur(k, pg.query)}) >= 2

\* C4: the index holds exactly one entry per stored message row, that of the
\* row's text, and nothing else; so both counts are equal.
C4_FtsCountEqualsMessageCount ==
    /\ fts_count(db) = message_count(db)
    /\ \A k \in DOMAIN db.messages :
           CopiesIn([rowid |-> k, text_plain |-> db.messages[k].text_plain],
                    db.fts) = 1

\* A batch that repeated a key (stored already or twice in the batch) went in.
C4_Witness ==
    /\ last.op = "insert_messages_batch" /\ last.ok /\ last.dup
    /\ message_count(db) >= 2

\* C5: inserting a batch all of whose keys are stored leaves the message
\* table as it was, and no step ever changes or removes a stored row.
C5_ReinsertIdempotent ==
    [][/\ (last'.op = "insert_messages_batch" /\ last'.allDup)
              => db'.messages = db.messages
       /\ \A k \in DOMAIN db.messages :
              k \in DOMAIN db'.messages /\ db'.messages[k] = db.messages[k]]_vars

\* A batch of stored keys with other attribute values was inserted.
C5_Witness ==
    /\ last.op = "insert_messages_batch" /\ last.ok
    /\ last.allDup /\ last.diff

\* C6: every stored message's chat id is the id of a chat row, and a batch
\* with a message of an unknown chat comes back as an error.
C6_MessagesReferenceChats ==
    /\ \A k \in DOMAIN db.messages : k[1] \in DOMAIN db.chats
    /\ (last.op = "insert_messages_batch" /\ last.unknown) => ~last.ok

\* A batch with a message of an unknown chat was rejected while messages of
\* known chats are stored.
C6_Witness ==
    /\ last.op = "insert_messages_batch" /\ last.unknown /\ ~last.ok
    /\ message_count(db) >= 1

\* C17: run_migrations on a database whose migrations have all run leaves
\* the whole database (tables, rows, index, metadata with schema_version,
\* connection settings) as it was and runs no step body, whatever chats and
\* messages are stored and however often it is called.
C17_MigrationsIdempotent ==
    [][last'.op = "run_migrations" =>
           /\ last'.ok
           /\ db' = db
           /\ steps' = steps
           /\ get_schema_version(db') = 3]_vars

\* The migrator ran again on a store that holds chats, one of them excluded,
\* and messages.
C17_Witness ==
    /\ last.op = "run_migrations" /\ last.ok
    /\ message_count(db) >= 2
    /\ \E c \in DOMAIN db.chats : db.chats[c].is_excluded

\* The rows that match the session's query after the given cursor.
MatchingAfter(cursor) ==
    search(db, pg.query, pg.scope, cursor, Some(message_count(db) + 1)).items

\* What the last page and its cursor must be at the session's limit.
PageWithinLimit ==
    LET limit == EffectiveLimit(pg.limit)
    IN  /\ Len(pg.page) <= limit
        /\ (pg.cursor # None) <=> (Len(MatchingAfter(pg.given)) > limit)
        /\ pg.cursor # None =>
               /\ pg.page # <<>>
               /\ pg.cursor = Some(CursorOf(pg.page[Len(pg.page)]))

\* C19 as stated, for every limit: the page has at most limit items, and
\* next_cursor is there exactly when more than limit rows match after the
\* given cursor, and is then the (timestamp, chat id, message id) of the
\* page's last item.
C19_CursorIffMoreForEveryLimit == pg.open => PageWithinLimit

\* C19: the same for every limit of at least 1.
C19_CursorIffMore == (pg.open /\ EffectiveLimit(pg.limit) >= 1) => PageWithinLimit

\* A second page, fetched with a cursor, that is followed by a third.
C19_Witness ==
    /\ pg.open /\ pg.pages = 2 /\ pg.given # None /\ pg.cursor # None
    /\ pg.limit = Some(1)

\* timestamp descending, then chat id ascending (all chats only), then
\* message id ascending.
Precedes(a, b, in_chat) ==
    \/ a.timestamp > b.timestamp
    \/ /\ a.timestamp = b.timestamp
       /\ IF in_chat THEN a.message_id < b.message_id
          ELSE \/ a.chat_id < b.chat_id
               \/ (a.chat_id = b.chat_id /\ a.message_id < b.message_id)

\* C20: the items of a session, within each page and from page to page, are
\* in the order timestamp descending, chat id ascending, message id
\* ascending (all chats) or timestamp descending, message id ascending (one
\* chat), on the trigram path and on the substring-scan path.
C20_ResultsOrdered ==
    pg.open =>
        \A i, j \in 1..Len(pg.items) :
            i < j => Precedes(pg.items[i], pg.items[j], pg.scope # None)

\* Two pages over all chats on the substring-scan path, with two items of
\* one timestamp from different chats.
C20_Witness ==
    /\ pg.open /\ pg.pages >= 2 /\ pg.scope = None
    /\ ~UseFts(split_whitespace(trim(pg.query)))
    /\ \E i, j \in 1..Len(pg.items) :
           /\ i < j
           /\ pg.items[i].timestamp = pg.items[j].timestamp
           /\ pg.items[i].chat_id < pg.items[j].chat_id
           /\ pg.items[i].message_id > pg.items[j].message_id

\* C34: an insert_messages_batch that returns an error leaves the store as
\* it was before the call: no row and no FTS row of the batch is there, and
\* no transaction is open.
C34_FailedBatchLeavesNoTrace ==
    [][(last'.op = "insert_messages_batch" /\ ~last'.ok /\ db' # db) =>
           /\ db'.messages = db.messages
           /\ db'.fts = db.fts
           /\ ~db'.in_txn]_vars

(***************************************************************************)
(* Collector: build_link, fetch_messages, fetch_messages_with_retry.       *)
(* The server's answer to one iter_messages call is a stream: messages,    *)
(* newest first, and then the end of the stream or an invocation error.    *)
(***************************************************************************)
\* 64-bit integers.  A magnitude is three limbs <<q, m, u>> that stand for
\* q * 10^12 + m * 10^6 + u, which covers u64; an i64 is a sign and a
\* magnitude.
Limb == 1000000

Mag(q, m, u) == <<q, m, u>>

\* The i64 with the value of a model integer below 10^9 in size.
I64(n) ==
    LET a == IF n < 0 THEN 0 - n ELSE n
    IN  [neg |-> n < 0, mag |-> Mag(0, a \div Limb, a % Limb)]

I64_MIN == [neg |-> TRUE, mag |-> Mag(9223372, 36854, 775808)]

I64_MAX == [neg |-> FALSE, mag |-> Mag(9223372, 36854, 775807)]

\* i64::unsigned_abs: the magnitude as a u64, exact for i64::MIN too.
unsigned_abs(x) == x.mag

MagLess(a, b) ==
    \/ a[1] < b[1]
    \/ a[1] = b[1] /\ a[2] < b[2]
    \/ a[1] = b[1] /\ a[2] = b[2] /\ a[3] < b[3]

\* u64::saturating_sub: a - b, or 0 where b is the larger.
saturating_sub(a, b) ==
    IF MagLess(a, b) THEN Mag(0, 0, 0)
    ELSE LET b3 == IF a[3] < b[3] THEN 1 ELSE 0
             u  == a[3] + b3 * Limb - b[3]
             b2 == IF a[2] - b3 < b[2] THEN 1 ELSE 0
             m  == a[2] - b3 + b2 * Limb - b[2]
         IN  Mag(a[1] - b2 - b[1], m, u)

\* 1_000_000_000_000
ChannelIdOffset == Mag(1, 0, 0)

DigitChar(d) == <<"0", "1", "2", "3", "4", "5", "6", "7", "8", "9">>[d + 1]

\* The decimal digits of n >= 0, without leading zeros.
RECURSIVE Decimal(_)
Decimal(n) ==
    IF n < 10 THEN <<DigitChar(n)>> ELSE Append(Decimal(n \div 10), DigitChar(n % 10))

\* The six decimal digits of a limb below the leading one.
RECURSIVE PadLimb(_, _)
PadLimb(n, width) ==
    IF width = 0 THEN <<>> ELSE Append(PadLimb(n \div 10, width - 1), DigitChar(n % 10))

\* Display of a u64.
FormatU64(a) ==
    IF a[1] > 0 THEN Decimal(a[1]) \o PadLimb(a[2], 6) \o PadLimb(a[3], 6)
    ELSE IF a[2] > 0 THEN Decimal(a[2]) \o PadLimb(a[3], 6)
    ELSE Decimal(a[3])

\* Display of an i64.
FormatI64(x) == (IF x.neg THEN <<"-">> ELSE <<>>) \o FormatU64(x.mag)

\* The link with a handle of no characters taken for a handle.
build_link_any_username(chat_id, username, message_id, chat_type) ==
    IF chat_type = "dm"
    THEN IF username # None
         THEN <<"https://t.me/">> \o Get(username)
         ELSE <<"tg://user?id=">> \o FormatI64(chat_id)
    ELSE IF username # None
         THEN <<"https://t.me/">> \o Get(username) \o <<"/">> \o FormatI64(message_id)
         ELSE <<"tg://privatepost?channel=">>
              \o FormatU64(saturating_sub(unsigned_abs(chat_id), ChannelIdOffset))
              \o <<"&post=">> \o FormatI64(message_id)

\* The formatted link: the literal pieces of the format string and the
\* characters of the values it is filled with.
build_link(chat_id, username, message_id, chat_type) ==
    IF chat_type = "dm"
    THEN IF username # None /\ Get(username) # <<>>
         THEN <<"https://t.me/">> \o Get(username)
         ELSE <<"tg://user?id=">> \o FormatI64(chat_id)
    ELSE IF username # None /\ Get(username) # <<>>
         THEN <<"https://t.me/">> \o Get(username) \o <<"/">> \o FormatI64(message_id)
         ELSE LET channel_id ==
                      saturating_sub(unsigned_abs(chat_id), ChannelIdOffset)
              IN  <<"tg://privatepost?channel=">> \o FormatU64(channel_id)
                  \o <<"&post=">> \o FormatI64(message_id)

Ok(rows) == [ok |-> TRUE, rows |-> rows, err |-> None]

Err(e) == [ok |-> FALSE, rows |-> <<>>, err |-> Some(e)]

FloodWait(secs) == [kind |-> "FloodWait", secs |-> secs, cause |-> None]

Api(e) == [kind |-> "Api", secs |-> 0, cause |-> Some(e)]

MapAllToFloodWait(e) ==
    FloodWait(IF e.value = None THEN DefaultFloodSecs ELSE Get(e.value))

\* The map_err of fetch_messages: FLOOD_WAIT with its value (5 if it has
\* none) becomes FloodWait, anything else an Api error.
MapInvocationError(e) ==
    IF e.kind = "Rpc" /\ e.name = "FLOOD_WAIT"
    THEN FloodWait(IF e.value = None THEN DefaultFloodSecs ELSE Get(e.value))
    ELSE Api(e)

\* The row with the text as it came put into both columns.
FetchedRowUnstripped(chat, msg) ==
    [message_id |-> msg.id, chat_id |-> chat.chat_id, timestamp |-> msg.date,
     text_plain |-> msg.text, text_stripped |-> msg.text,
     link |-> Some(build_link(I64(chat.chat_id), chat.username, I64(msg.id),
                              chat.chat_type))]

FetchedRow(chat, msg) ==
    [message_id |-> msg.id, chat_id |-> chat.chat_id, timestamp |-> msg.date,
     text_plain |-> msg.text, text_stripped |-> strip_whitespace(msg.text),
     link |-> Some(build_link(I64(chat.chat_id), chat.username, I64(msg.id),
                              chat.chat_type))]

\* The loop passing over a message it has, where the code stops.
RECURSIVE FetchLoopSkipping(_, _, _, _, _)
FetchLoopSkipping(chat, oldest_id, stream, i, rows) ==
    IF i > Len(stream.msgs)
    THEN IF stream.end = None THEN Ok(rows)
         ELSE Err(MapInvocationError(Get(stream.end)))
    ELSE LET msg == stream.msgs[i]
         IN  IF (oldest_id # None /\ msg.id <= Get(oldest_id)) \/ msg.text = <<>>
             THEN FetchLoopSkipping(chat, oldest_id, stream, i + 1, rows)
             ELSE LET pushed == Append(rows, FetchedRow(chat, msg))
                  IN  IF Len(pushed) >= BATCH_SIZE THEN Ok(pushed)
                      ELSE FetchLoopSkipping(chat, oldest_id, stream, i + 1, pushed)

\* The loop of fetch_messages from the stream's i-th message on.
RECURSIVE FetchLoop(_, _, _, _, _)
FetchLoop(chat, oldest_id, stream, i, rows) ==
    IF i > Len(stream.msgs)
    THEN IF stream.end = None THEN Ok(rows)
         ELSE Err(MapInvocationError(Get(stream.end)))
    ELSE LET msg == stream.msgs[i]
         IN  IF oldest_id # None /\ msg.id <= Get(oldest_id) THEN Ok(rows)
             ELSE IF msg.text = <<>>
                  THEN FetchLoop(chat, oldest_id, stream, i + 1, rows)
                  ELSE LET pushed == Append(rows, FetchedRow(chat, msg))
                       IN  IF Len(pushed) >= BATCH_SIZE THEN Ok(pushed)
                           ELSE FetchLoop(chat, oldest_id, stream, i + 1, pushed)

fetch_messages(chat, oldest_id, stream) == FetchLoop(chat, oldest_id, stream, 1, <<>>)

MayRetryAlways(attempt) == TRUE

\* The guard of the FloodWait arm: attempt < MAX_FLOOD_RETRIES.
MayRetry(attempt) == attempt < MAX_FLOOD_RETRIES

(***************************************************************************)
(* Specification SpecRetry: one caller of fetch_messages_with_retry.       *)
(*   rt.pc      : idle, fetch (about to call fetch_messages), sleep,       *)
(*                returned, unreachable (the loop ran out)                 *)
(*   rt.attempt : the loop variable                                        *)
(*   rt.hist    : the server's answers to the attempts made so far         *)
(*   rt.sleeps  : the seconds slept so far                                 *)
(***************************************************************************)
RpcError(name, value) == [kind |-> "Rpc", name |-> name, value |-> value]

IoError == [kind |-> "Io", name |-> "", value |-> None]

InvocationErrors ==
    { RpcError("FLOOD_WAIT", Some(1)), RpcError("FLOOD_WAIT", Some(30)),
      RpcError("FLOOD_WAIT", None), RpcError("CHANNEL_PRIVATE", None), IoError }

\* The messages of a stream: none; two, the older without text; three, of
\* which the last has a higher id than the one before it.
StreamMsgs ==
    { <<>>,
      << [id |-> 2, date |-> 1001, text |-> s_abc],
         [id |-> 1, date |-> 1000, text |-> <<>>] >>,
      << [id |-> 3, date |-> 1002, text |-> s_abc],
         [id |-> 1, date |-> 1000, text |-> s_abc],
         [id |-> 2, date |-> 1001, text |-> s_Ab_c] >> }

StreamInputs ==
    {[msgs |-> m, end |-> e] :
        m \in StreamMsgs, e \in {None} \cup {Some(x) : x \in InvocationErrors}}

OldestIdInputs == {None, Some(1), Some(2)}

RetryChat == ChatRow(1, <<"c">>, "supergroup", FALSE)

InitRetry ==
    /\ db = OpenStore
    /\ last = LastNone
    /\ pg = PgIdle
    /\ rt = RtIdle
    /\ runs = RunsIdle
    /\ auth = AuthIdle
    /\ steps = StepsOfOpenStore
    /\ lk = LkIdle
    /\ call = CallNone

\* fetch_messages_with_retry is called.
RetryCall(oldest_id) ==
    /\ rt.pc \in {"idle", "returned"}
    /\ rt' = [RtIdle EXCEPT !.pc = "fetch", !.oldest_id = oldest_id]
    /\ UNCHANGED <<db, last, pg, runs, auth, steps, lk, call>>

\* One pass of the loop body up to its return or its sleep.
RetryAttempt(stream) ==
    /\ rt.pc = "fetch"
    /\ LET r == fetch_messages(RetryChat, rt.oldest_id, stream)
           hist == Append(rt.hist, stream)
       IN  IF r.ok
           THEN rt' = [rt EXCEPT !.pc = "returned", !.hist = hist,
                                 !.result = Some(r)]
           ELSE IF Get(r.err).kind = "FloodWait" /\ MayRetry(rt.attempt)
           THEN rt' = [rt EXCEPT !.pc = "sleep", !.hist = hist]
           ELSE rt' = [rt EXCEPT !.pc = "returned", !.hist = hist,
                                 !.result = Some(r)]
    /\ UNCHANGED <<db, last, pg, runs, auth, steps, lk, call>>

\* The sleep ends and the loop goes on, or runs out.
RetrySleep ==
    /\ rt.pc = "sleep"
    /\ LET e == Get(fetch_messages(RetryChat, rt.oldest_id,
                                   rt.hist[Len(rt.hist)]).err)
       IN  rt' = [rt EXCEPT !.sleeps = Append(@, e.secs),
                            !.attempt = @ + 1,
                            !.pc = IF rt.attempt + 1 <= MAX_FLOOD_RETRIES
                                   THEN "fetch" ELSE "unreachable"]
    /\ UNCHANGED <<db, last, pg, runs, auth, steps, lk, call>>

NextRetry ==
    \/ \E o \in OldestIdInputs : RetryCall(o)
    \/ \E stream \in StreamInputs : RetryAttempt(stream)
    \/ RetrySleep

SpecRetry == InitRetry /\ [][NextRetry]_vars

(***************************************************************************)
(* Properties of SpecRetry.                                                *)
(***************************************************************************)
IsFlood(stream) ==
    /\ stream.end # None
    /\ Get(stream.end).kind = "Rpc"
    /\ Get(stream.end).name = "FLOOD_WAIT"
    /\ \/ rt.oldest_id = None
       \/ \A i \in 1..Len(stream.msgs) : stream.msgs[i].id > Get(rt.oldest_id)

\* The seconds a flood-wait answer carries (5 when it names none).
SecsOf(stream) ==
    IF Get(stream.end).value = None THEN 5 ELSE Get(Get(stream.end).value)

AllFloodUpTo(n) == \A i \in 1..n : IsFlood(rt.hist[i])

SleptPerFlood(n) ==
    /\ Len(rt.sleeps) = n
    /\ \A i \in 1..n : rt.sleeps[i] = SecsOf(rt.hist[i])

\* C7: answered with flood-wait only, the call returns after exactly 3
\* attempts and 2 sleeps, each of the seconds of the flood-wait before it,
\* with the flood-wait error of the third attempt; a success after
\* flood-waits returns its rows after one such sleep per flood-wait; the
\* loop never runs out and never sleeps a third time.
C7_FloodWaitRetries ==
    /\ rt.pc # "unreachable"
    /\ Len(rt.sleeps) <= 2
    /\ (rt.pc = "returned" /\ AllFloodUpTo(Len(rt.hist))) =>
           /\ Len(rt.hist) = 3
           /\ SleptPerFlood(2)
           /\ rt.result = Some(Err(FloodWait(SecsOf(rt.hist[3]))))
    /\ (rt.pc = "returned" /\ AllFloodUpTo(Len(rt.hist) - 1)
                           /\ Get(rt.result).ok) =>
           /\ Len(rt.hist) <= 3
           /\ SleptPerFlood(Len(rt.hist) - 1)
           /\ rt.result = Some(fetch_messages(RetryChat, rt.oldest_id,
                                              rt.hist[Len(rt.hist)]))

\* Three flood-waits of different seconds, the third one returned.
C7_Witness ==
    /\ rt.pc = "returned" /\ Len(rt.hist) = 3 /\ AllFloodUpTo(3)
    /\ rt.sleeps = <<30, 5>>
    /\ Get(Get(rt.result).err).secs = 1

IsOtherError(stream) ==
    /\ stream.end # None
    /\ ~(Get(stream.end).kind = "Rpc" /\ Get(stream.end).name = "FLOOD_WAIT")
    /\ \/ rt.oldest_id = None
       \/ \A i \in 1..Len(stream.msgs) : stream.msgs[i].id > Get(rt.oldest_id)

\* C8: an attempt that fails with another error than flood-wait is the last
\* one: the call has returned that error, with no sleep after the attempt.
C8_OtherErrorReturnsAtOnce ==
    \A i \in 1..Len(rt.hist) :
        IsOtherError(rt.hist[i]) =>
            /\ i = Len(rt.hist)
            /\ rt.pc = "returned"
            /\ Len(rt.sleeps) = i - 1
            /\ ~Get(rt.result).ok
            /\ Get(Get(rt.result).err).kind = "Api"
            /\ Get(Get(rt.result).err).cause = rt.hist[i].end

\* Another error on the third attempt, after two flood-waits.
C8_Witness ==
    /\ rt.pc = "returned" /\ Len(rt.hist) = 3
    /\ IsOtherError(rt.hist[3])
    /\ Len(rt.sleeps) = 2

\* The answer the returned call got last.
LastStream == rt.hist[Len(rt.hist)]

\* The position of the first message of the stream with id <= k, or the
\* position after the stream's end.
FirstKnown(stream, k) ==
    IF \E i \in 1..Len(stream.msgs) : stream.msgs[i].id <= k
    THEN CHOOSE i \in 1..Len(stream.msgs) :
             /\ stream.msgs[i].id <= k
             /\ \A j \in 1..(i - 1) : stream.msgs[j].id > k
    ELSE Len(stream.msgs) + 1

RowIds(rows) == [j \in 1..Len(rows) |-> rows[j].message_id]

MsgIds(msgs) == [j \in 1..Len(msgs) |-> msgs[j].id]

\* The ids of the messages with text among the first n of the stream.
TextIdsBefore(stream, n) ==
    MsgIds(SelectSeq(SubSeq(stream.msgs, 1, n - 1), LAMBDA msg : msg.text # <<>>))

\* C25: a call with oldest_id = k that returns rows returns the messages
\* with text that precede the first message with id <= k in the stream, in
\* stream order, up to the batch size: every row has id > k and no message
\* at or after that first message is returned.
C25_StopsAtOldestId ==
    (rt.pc = "returned" /\ rt.oldest_id # None /\ Get(rt.result).ok) =>
        LET k == Get(rt.oldest_id)
            rows == Get(rt.result).rows
            before == TextIdsBefore(LastStream, FirstKnown(LastStream, k))
        IN  /\ \A j \in 1..Len(rows) : rows[j].message_id > k
            /\ RowIds(rows) =
                   SubSeq(before, 1, IF Len(before) < BATCH_SIZE THEN Len(before)
                                     ELSE BATCH_SIZE)

\* With oldest_id = 1 the stream 3, 1, 2 gave the row of message 3 and not
\* that of message 2, which comes after message 1.
C25_Witness ==
    /\ rt.pc = "returned"
    /\ rt.oldest_id = Some(1)
    /\ MsgIds(LastStream.msgs) = <<3, 1, 2>>
    /\ Get(rt.result).ok
    /\ RowIds(Get(rt.result).rows) = <<3>>

(***************************************************************************)
(* Collection and sync runs.  A run spawns one task per chat; a task waits *)
(* for a permit of the run's semaphore, fetches, and finishes or panics;   *)
(* the run joins its tasks in the order they ended.                        *)
(*   runs[r].pc         : idle, running, done, error (fetch_chats failed), *)
(*                        failed (incremental_sync returned an error)      *)
(*   runs[r].chats      : the chat rows in spawn order                     *)
(*   runs[r].tasks[i]   : st (waiting, fetching, finished, panicked,       *)
(*                        joined, aborted) and the fetch result            *)
(*   runs[r].ready      : the ended tasks join_next has yet to return      *)
(***************************************************************************)
TaskNew == [st |-> "waiting", result |-> None]

\* The loop over chat_rows with upsert_chat; a failed upsert is logged.
RECURSIVE UpsertAll(_, _, _)
UpsertAll(d, rows, i) ==
    IF i > Len(rows) THEN d ELSE UpsertAll(upsert_chat(d, rows[i]).db, rows, i + 1)

RECURSIVE FilterSeq(_, _)
FilterSeq(s, keep) ==
    IF s = <<>> THEN <<>>
    ELSE IF Head(s).chat_id \in keep THEN <<Head(s)>> \o FilterSeq(Tail(s), keep)
    ELSE FilterSeq(Tail(s), keep)

\* x > y on i64.
I64Greater(x, y) ==
    IF x.neg # y.neg THEN y.neg /\ (x.mag # Mag(0, 0, 0) \/ y.mag # Mag(0, 0, 0))
    ELSE IF x.neg THEN MagLess(x.mag, y.mag)
    ELSE MagLess(y.mag, x.mag)

\* The sort key with the id range left out of it.
PriorityKeyByKind(chat_type, chat_id) ==
    IF chat_type = "supergroup" THEN 0
    ELSE IF chat_type = "dm" THEN 3
    ELSE 1

\* The sort key of run_collection.
PriorityKey(chat_type, chat_id) ==
    IF chat_type = "supergroup" THEN 0
    ELSE IF chat_type = "dm" THEN 3
    ELSE IF I64Greater(chat_id, [neg |-> TRUE, mag |-> ChannelIdOffset]) THEN 1
    ELSE 2

RECURSIVE WithKey(_, _, _)
WithKey(s, keys, k) ==
    IF s = <<>> THEN <<>>
    ELSE IF Head(keys) = k THEN <<Head(s)>> \o WithKey(Tail(s), Tail(keys), k)
    ELSE WithKey(Tail(s), Tail(keys), k)

\* sort_by_key: a stable sort, here over the keys 0..3.
sort_by_key(s, keys) ==
    WithKey(s, keys, 0) \o WithKey(s, keys, 1) \o WithKey(s, keys, 2)
    \o WithKey(s, keys, 3)

\* The sort of rows whose chat_id is a model integer.
SortByPriority(s) ==
    sort_by_key(s, [i \in 1..Len(s) |->
                       PriorityKey(s[i].chat_type, I64(s[i].chat_id))])

\* Code-point order of the characters that occur in titles.
CharRank(c) == CHOOSE i \in 1..4 : <<"a", "b", "c", "d">>[i] = c

RECURSIVE StrLess(_, _)
StrLess(s, t) ==
    IF t = <<>> THEN FALSE
    ELSE IF s = <<>> THEN TRUE
    ELSE IF Head(s) = Head(t) THEN StrLess(Tail(s), Tail(t))
    ELSE CharRank(Head(s)) < CharRank(Head(t))

StoredChatRow(d, c) ==
    [chat_id |-> c, title |-> d.chats[c].title, chat_type |-> d.chats[c].chat_type,
     username |-> d.chats[c].username, access_hash |-> d.chats[c].access_hash,
     is_excluded |-> d.chats[c].is_excluded]

\* The lists get_active_chats may return: ORDER BY title, rows of equal
\* title in any order.
ActiveChatLists(d) ==
    LET ids == get_active_chats(d)
        n == Cardinality(ids)
    IN  {[i \in 1..n |-> StoredChatRow(d, f[i])] :
            f \in {g \in [1..n -> ids] :
                      /\ \A i, j \in 1..n : i # j => g[i] # g[j]
                      /\ \A i, j \in 1..n :
                             i < j => ~StrLess(d.chats[g[j]].title,
                                               d.chats[g[i]].title)}}

Spawn(chats) == [i \in 1..Len(chats) |-> TaskNew]

\* The oldest_id of each chat of incremental_sync: the last_message_id of its
\* sync state, if it has one.
SyncBookmarks(d, chats) ==
    [i \in 1..Len(chats) |->
        IF get_sync_state(d, chats[i].chat_id) = None THEN None
        ELSE Some(Get(get_sync_state(d, chats[i].chat_id)).last_message_id)]

PermitsHeld(run) ==
    Cardinality({i \in 1..Len(run.tasks) : run.tasks[i].st = "fetching"})

RECURSIVE TasksUpTo(_)
TasksUpTo(r) == IF r = 0 THEN 0 ELSE Len(runs[r].tasks) + TasksUpTo(r - 1)

TasksSpawned == TasksUpTo(MaxRuns)

RECURSIVE FetchingUpTo(_)
FetchingUpTo(r) == IF r = 0 THEN 0 ELSE PermitsHeld(runs[r]) + FetchingUpTo(r - 1)

AbortOnFetchError(run) ==
    [run EXCEPT !.pc = "failed",
                !.tasks = [i \in 1..Len(run.tasks) |->
                              IF run.tasks[i].st = "joined" THEN run.tasks[i]
                              ELSE [run.tasks[i] EXCEPT !.st = "aborted"]],
                !.ready = <<>>]

\* The Err arm of both join loops: the failure is logged.
OnFetchError(run) == run

(***************************************************************************)
(* Specification SpecColl: start_collection and incremental_sync, each     *)
(* callable while earlier runs are still going.                            *)
(***************************************************************************)
TitleOf(c) == <<<<"b">>, <<"a">>, <<"d">>, <<"c">>>>[c]

DialogRow(c, type) ==
    [chat_id |-> c, title |-> TitleOf(c), chat_type |-> type, username |-> None,
     access_hash |-> None, is_excluded |-> FALSE]

Dialogs ==
    << DialogRow(1, "group"), DialogRow(2, "supergroup"),
       DialogRow(3, "group"), DialogRow(4, "supergroup") >>

\* What fetch_chats returns: an error, or the first n dialogs of the account.
FetchChatsInputs ==
    {Err(Api(IoError))} \cup {Ok(SubSeq(Dialogs, 1, n)) : n \in 0..Len(Dialogs)}

\* The answer to the task's last attempt: a message and the end of the
\* stream, or an error that is no flood-wait.
TaskStreams ==
    { [msgs |-> << [id |-> 1, date |-> 1000, text |-> s_abc] >>, end |-> None],
      [msgs |-> <<>>, end |-> Some(RpcError("CHANNEL_PRIVATE", None))] }

InitColl ==
    /\ db = OpenStore
    /\ last = LastNone
    /\ pg = PgIdle
    /\ rt = RtIdle
    /\ runs = RunsIdle
    /\ auth = AuthIdle
    /\ steps = StepsOfOpenStore
    /\ lk = LkIdle
    /\ call = CallNone

\* start_collection and run_collection up to the spawning of the tasks.
StartCollection(r, fetched) ==
    /\ runs[r].pc = "idle"
    /\ IF ~fetched.ok
       THEN /\ runs' = [runs EXCEPT ![r].pc = "error", ![r].kind = "collection"]
            /\ UNCHANGED db
       ELSE LET d == UpsertAll(db, fetched.rows, 1)
                active_ids == get_active_chats(d)
                chats == SortByPriority(FilterSeq(fetched.rows, active_ids))
            IN  /\ TasksSpawned + Len(chats) <= MaxTasks
                /\ db' = d
                /\ runs' = [runs EXCEPT ![r] =
                              [RunIdle EXCEPT !.pc = "running",
                                              !.kind = "collection",
                                              !.chats = chats,
                                              !.oldest = [i \in 1..Len(chats) |-> None],
                                              !.tasks = Spawn(chats)]]
    /\ UNCHANGED <<last, pg, rt, auth, steps, lk, call>>

\* incremental_sync up to the spawning of the tasks.
StartSync(r) ==
    /\ runs[r].pc = "idle"
    /\ TasksSpawned + Cardinality(get_active_chats(db)) <= MaxTasks
    /\ \E chats \in ActiveChatLists(db) :
           runs' = [runs EXCEPT ![r] =
                      [RunIdle EXCEPT !.pc = "running", !.kind = "sync",
                                      !.chats = chats,
                                      !.oldest = SyncBookmarks(db, chats),
                                      !.tasks = Spawn(chats)]]
    /\ UNCHANGED <<db, last, pg, rt, auth, steps, lk, call>>

\* sem.acquire(): a permit of the run's own semaphore.
TaskAcquire(r, i) ==
    /\ runs[r].pc = "running"
    /\ i \in 1..Len(runs[r].tasks)
    /\ runs[r].tasks[i].st = "waiting"
    /\ PermitsHeld(runs[r]) < SemaphorePermits
    /\ runs' = [runs EXCEPT ![r].tasks[i].st = "fetching"]
    /\ UNCHANGED <<db, last, pg, rt, auth, steps, lk, call>>

\* fetch_messages_with_retry returns what its last attempt gave; the permit
\* is dropped with the task.
TaskFinish(r, i, stream) ==
    /\ runs[r].pc = "running"
    /\ i \in 1..Len(runs[r].tasks)
    /\ runs[r].tasks[i].st = "fetching"
    /\ runs' = [runs EXCEPT
                  ![r].tasks[i] =
                      [st |-> "finished",
                       result |-> Some(fetch_messages(runs[r].chats[i],
                                                       runs[r].oldest[i], stream))],
                  ![r].ready = Append(@, i)]
    /\ UNCHANGED <<db, last, pg, rt, auth, steps, lk, call>>

\* The task panics while it fetches; unwinding drops its permit.
TaskPanic(r, i) ==
    /\ runs[r].pc = "running"
    /\ i \in 1..Len(runs[r].tasks)
    /\ runs[r].tasks[i].st = "fetching"
    /\ runs' = [runs EXCEPT ![r].tasks[i].st = "panicked",
                            ![r].ready = Append(@, i)]
    /\ UNCHANGED <<db, last, pg, rt, auth, steps, lk, call>>

\* One pass of run_collection's join loop.
JoinCollection(r) ==
    /\ runs[r].pc = "running" /\ runs[r].kind = "collection"
    /\ runs[r].ready # <<>>
    /\ LET i == Head(runs[r].ready)
           t == runs[r].tasks[i]
           popped == [runs[r] EXCEPT !.ready = Tail(@), !.tasks[i].st = "joined"]
       IN  IF t.st = "panicked"
           THEN /\ runs' = [runs EXCEPT ![r] = popped]
                /\ UNCHANGED db
           ELSE IF Get(t.result).ok
           THEN /\ db' = IF Get(t.result).rows # <<>>
                         THEN insert_messages_batch(db, Get(t.result).rows).db
                         ELSE db
                /\ runs' = [runs EXCEPT ![r] =
                              [popped EXCEPT !.chats_done = @ + 1]]
           ELSE /\ runs' = [runs EXCEPT ![r] =
                              [OnFetchError(popped) EXCEPT !.chats_done = @ + 1]]
                /\ UNCHANGED db
    /\ UNCHANGED <<last, pg, rt, auth, steps, lk, call>>

\* One pass of incremental_sync's join loop; a failed insert returns the
\* error and drops the JoinSet, which aborts the tasks left.
JoinSync(r) ==
    /\ runs[r].pc = "running" /\ runs[r].kind = "sync"
    /\ runs[r].ready # <<>>
    /\ LET i == Head(runs[r].ready)
           t == runs[r].tasks[i]
           popped == [runs[r] EXCEPT !.ready = Tail(@), !.tasks[i].st = "joined"]
       IN  IF t.st = "panicked"
           THEN /\ runs' = [runs EXCEPT ![r] = popped]
                /\ UNCHANGED db
           ELSE IF Get(t.result).ok
           THEN LET rows == Get(t.result).rows
                    ins == IF rows # <<>> THEN insert_messages_batch(db, rows)
                           ELSE [ok |-> TRUE, db |-> db]
                IN  /\ db' = ins.db
                    /\ runs' = [runs EXCEPT ![r] =
                                  IF ins.ok
                                  THEN [popped EXCEPT !.total = @ + Len(rows)]
                                  ELSE AbortOnFetchError(popped)]
           ELSE /\ runs' = [runs EXCEPT ![r] = OnFetchError(popped)]
                /\ UNCHANGED db
    /\ UNCHANGED <<last, pg, rt, auth, steps, lk, call>>

\* join_next returns None: collection-complete is emitted, or the sync
\* returns its total.
EndRun(r) ==
    /\ runs[r].pc = "running"
    /\ \A i \in 1..Len(runs[r].tasks) : runs[r].tasks[i].st = "joined"
    /\ runs' = [runs EXCEPT ![r].pc = "done"]
    /\ UNCHANGED <<db, last, pg, rt, auth, steps, lk, call>>

NextColl ==
    \/ \E r \in 1..MaxRuns, f \in FetchChatsInputs : StartCollection(r, f)
    \/ \E r \in 1..MaxRuns : StartSync(r)
    \/ \E r \in 1..MaxRuns, i \in 1..MaxTasks : TaskAcquire(r, i)
    \/ \E r \in 1..MaxRuns, i \in 1..MaxTasks, s \in TaskStreams : TaskFinish(r, i, s)
    \/ \E r \in 1..MaxRuns, i \in 1..MaxTasks : TaskPanic(r, i)
    \/ \E r \in 1..MaxRuns : JoinCollection(r)
    \/ \E r \in 1..MaxRuns : JoinSync(r)
    \/ \E r \in 1..MaxRuns : EndRun(r)

SpecColl == InitColl /\ [][NextColl]_vars

(***************************************************************************)
(* Properties of SpecColl.                                                 *)
(***************************************************************************)
\* The message iterations open towards the server, over all runs.
InFlight == FetchingUpTo(MaxRuns)

\* C9: at most 3 message iterations are in flight at any moment, over all
\* collection and sync runs of the process.
C9_AtMostThreeInFlight == InFlight <= 3

Persisted(rows) == \A j \in 1..Len(rows) : Key(rows[j]) \in DOMAIN db.messages

Succeeded(t) == t.result # None /\ Get(t.result).ok

\* C10: no run is cut short and no task is aborted; the rows of every joined
\* task whose fetch succeeded are in the store, and a run that reached its
\* end has joined all its tasks.
C10_FailureSparesSiblings ==
    \A r \in 1..MaxRuns :
        /\ runs[r].pc # "failed"
        /\ \A i \in 1..Len(runs[r].tasks) :
               /\ runs[r].tasks[i].st # "aborted"
               /\ (runs[r].tasks[i].st = "joined" /\ Succeeded(runs[r].tasks[i]))
                      => Persisted(Get(runs[r].tasks[i].result).rows)
        /\ runs[r].pc = "done" =>
               \A i \in 1..Len(runs[r].tasks) : runs[r].tasks[i].st = "joined"

\* The run ended normally; task i did not succeed, task k did and its rows
\* are in the store.
EndedWith(run, i, k) ==
    /\ run.pc = "done"
    /\ i \in 1..Len(run.tasks) /\ k \in 1..Len(run.tasks)
    /\ ~Succeeded(run.tasks[i])
    /\ Succeeded(run.tasks[k])
    /\ Get(run.tasks[k].result).rows # <<>>
    /\ Persisted(Get(run.tasks[k].result).rows)

\* A collection ended after a failed fetch and a successful one, and a sync
\* after a panic and a successful fetch.
C10_Witness ==
    \E r, q \in 1..MaxRuns : \E i, k \in 1..MaxTasks :
        /\ runs[r].kind = "collection" /\ EndedWith(runs[r], i, k)
        /\ runs[r].tasks[i].result # None
        /\ runs[q].kind = "sync" /\ EndedWith(runs[q], i, k)
        /\ runs[q].tasks[i].result = None

(***************************************************************************)
(* Specification SpecLock: who holds the store mutex, and when.            *)
(* AppState.store is a std::sync::Mutex<Store>; its guard lives from the   *)
(* lock() call to the end of the enclosing block.  Each asynchronous       *)
(* function that touches the store is followed along its paths, one step   *)
(* per lock(), store call, end of the guard's block, .await and return.    *)
(* A path that only returns early from an .await of a longer path is       *)
(* left out; a path that returns early from inside a guard's block is not. *)
(*   lk.holder : the task that holds the store mutex                       *)
(*   lk.task   : for each task the function and path it runs and the       *)
(*               position of the step it is at (an .await: suspended)      *)
(***************************************************************************)
AwaitOps ==
    {"await_remote", "await_sleep", "await_timeout", "await_semaphore",
     "await_mutex", "await_join"}

\* connect_telegram: the credentials are read under the guard of the block
\* of lines 73-87; the stale-session arm takes the guard again.
connect_paths ==
    { <<"lock", "store", "unlock", "ret">>,
      <<"lock", "store", "store", "unlock", "await_mutex", "await_mutex",
        "await_remote", "await_timeout", "await_mutex", "await_mutex", "ret">>,
      <<"lock", "store", "store", "unlock", "await_mutex", "await_mutex",
        "await_remote", "await_timeout", "lock", "store", "unlock",
        "await_remote", "await_mutex", "await_mutex", "ret">>,
      <<"lock", "store", "store", "unlock", "await_mutex", "await_mutex",
        "await_remote", "await_mutex", "await_mutex", "ret">> }

request_login_code_paths ==
    { <<"await_mutex", "lock", "store", "unlock", "ret">>,
      <<"await_mutex", "lock", "store", "unlock", "await_timeout",
        "await_mutex", "ret">> }

submit_login_code_paths ==
    { <<"await_mutex", "await_mutex", "await_remote", "lock", "store",
        "unlock", "ret">>,
      <<"await_mutex", "await_mutex", "await_remote", "await_mutex", "ret">> }

submit_password_paths ==
    { <<"await_mutex", "await_mutex", "await_remote", "lock", "store",
        "unlock", "ret">> }

\* run_collection: the dialogs are stored under the guard of lines 295-310;
\* each joined batch is stored under the guard of lines 383-388.
run_collection_paths ==
    { <<"await_remote", "lock", "store", "store", "unlock", "await_join",
        "await_mutex", "await_join", "lock", "store", "unlock",
        "await_mutex", "await_join", "ret">> }

\* The task run_collection spawns for one chat; it never takes the store.
collection_task_paths ==
    { <<"await_semaphore", "await_sleep", "await_mutex", "await_remote",
        "await_mutex", "ret">> }

incremental_sync_paths ==
    { <<"lock", "store", "unlock", "ret">>,
      <<"lock", "store", "store", "unlock", "await_join", "await_join",
        "lock", "store", "unlock", "await_join", "ret">> }

sync_task_paths ==
    { <<"await_semaphore", "await_sleep", "await_remote", "ret">> }

PathsOf(fn) ==
    CASE fn = "connect_telegram" -> connect_paths
      [] fn = "request_login_code" -> request_login_code_paths
      [] fn = "submit_login_code" -> submit_login_code_paths
      [] fn = "submit_password" -> submit_password_paths
      [] fn = "run_collection" -> run_collection_paths
      [] fn = "collection_task" -> collection_task_paths
      [] fn = "incremental_sync" -> incremental_sync_paths
      [] fn = "sync_task" -> sync_task_paths

LockFns ==
    {"connect_telegram", "request_login_code", "submit_login_code",
     "submit_password", "run_collection", "collection_task",
     "incremental_sync", "sync_task"}

\* The step task t is at.
OpAt(t) ==
    IF lk.task[t].pc = 0 THEN "none" ELSE lk.task[t].path[lk.task[t].pc]

Advance(t) == [lk.task EXCEPT ![t].pc = @ + 1]

\* The end of the block that declared the guard, or an early return from
\* it, without the guard ever leaving the task.
GuardKept(holder, t) == holder

\* The end of the block that declared the guard, or an early return from it.
GuardDropped(holder, t) == IF holder = Some(t) THEN None ELSE holder

InitLock ==
    /\ db = OpenStore
    /\ last = LastNone
    /\ pg = PgIdle
    /\ rt = RtIdle
    /\ runs = RunsIdle
    /\ auth = AuthIdle
    /\ steps = StepsOfOpenStore
    /\ lk = LkIdle
    /\ call = CallNone

\* A command is invoked, or a task is spawned.
LkCall(t, fn, path) ==
    /\ lk.task[t].pc = 0
    /\ lk' = [lk EXCEPT !.task[t] = [fn |-> fn, path |-> path, pc |-> 1]]
    /\ UNCHANGED <<db, last, pg, rt, runs, auth, steps, call>>

\* state.store.lock(): the thread blocks until the mutex is free.
LkLock(t) ==
    /\ OpAt(t) = "lock"
    /\ lk.holder = None
    /\ lk' = [holder |-> Some(t), task |-> Advance(t)]
    /\ UNCHANGED <<db, last, pg, rt, runs, auth, steps, call>>

\* A call on the store through the guard.
LkStore(t) ==
    /\ OpAt(t) = "store"
    /\ lk.holder = Some(t)
    /\ lk' = [lk EXCEPT !.task = Advance(t)]
    /\ UNCHANGED <<db, last, pg, rt, runs, auth, steps, call>>

LkUnlock(t) ==
    /\ OpAt(t) = "unlock"
    /\ lk' = [holder |-> GuardDropped(lk.holder, t), task |-> Advance(t)]
    /\ UNCHANGED <<db, last, pg, rt, runs, auth, steps, call>>

\* The awaited future completes and the task goes on.
LkResume(t) ==
    /\ OpAt(t) \in AwaitOps
    /\ lk' = [lk EXCEPT !.task = Advance(t)]
    /\ UNCHANGED <<db, last, pg, rt, runs, auth, steps, call>>

LkReturn(t) ==
    /\ OpAt(t) = "ret"
    /\ lk' = [lk EXCEPT !.task[t] = LkTaskIdle]
    /\ UNCHANGED <<db, last, pg, rt, runs, auth, steps, call>>

NextLock ==
    \/ \E t \in 1..MaxLockTasks, fn \in LockFns :
           \E path \in PathsOf(fn) : LkCall(t, fn, path)
    \/ \E t \in 1..MaxLockTasks : LkLock(t)
    \/ \E t \in 1..MaxLockTasks : LkStore(t)
    \/ \E t \in 1..MaxLockTasks : LkUnlock(t)
    \/ \E t \in 1..MaxLockTasks : LkResume(t)
    \/ \E t \in 1..MaxLockTasks : LkReturn(t)

SpecLock == InitLock /\ [][NextLock]_vars

(***************************************************************************)
(* Properties of SpecLock.                                                 *)
(***************************************************************************)
\* C11: a task that is suspended (on a remote call, a sleep, a timeout
\* wrapper, a semaphore, an asynchronous mutex or a join) does not hold the
\* store mutex; this for connect, the three login commands, the collection
\* run and incremental sync, and the tasks the last two spawn.
C11_NoStoreLockWhileSuspended ==
    \A t \in 1..MaxLockTasks :
        OpAt(t) \in AwaitOps => lk.holder # Some(t)

\* One task is suspended on a remote call that follows its store access
\* while another task holds the store mutex.
C11_Witness ==
    \E t, u \in 1..MaxLockTasks :
        /\ OpAt(t) \in {"await_remote", "await_timeout"}
        /\ \E i \in 1..(lk.task[t].pc - 1) : lk.task[t].path[i] = "unlock"
        /\ lk.holder = Some(u)
        /\ lk.task[u].fn \in {"run_collection", "incremental_sync"}

(***************************************************************************)
(* Specification SpecAuth: the application from start to exit, its         *)
(* credentials, connect and the login commands, one command at a time.     *)
(* A command that awaits a remote call rests at that call until the call   *)
(* ends or its timer (if it has one) fires.                                *)
(*   auth.pc             : "closed", "idle", or the await a command is at  *)
(*   auth.client, runner : AppState.client, AppState.runner_handle; the    *)
(*                         value tells which connect made it               *)
(*   auth.probe_runner   : the runner of the client connect probes         *)
(*   auth.session_file   : telegram.session: "none", "old" (it was there   *)
(*                         when connect began) or "new"                    *)
(*   auth.login_token, password_token : the slots of AppState              *)
(*   auth.held           : the token the running command has taken         *)
(*   auth.timer          : the timeout around the pending remote call      *)
(*   auth.completed      : a login went through since the flag was cleared *)
(*   auth.conn           : what the last connect met                       *)
(*   auth.result         : what the last command returned                  *)
(*   steps               : how often each migration step's body has run    *)
(***************************************************************************)
is_authenticated(d) == get_meta(d, "tg_authenticated") = Some(<<"1">>)

CmdOk(cmd, val) == Some([cmd |-> cmd, ok |-> TRUE, val |-> val])

CmdErr(cmd, e) == Some([cmd |-> cmd, ok |-> FALSE, val |-> e])

\* tokio::time::timeout(Duration::from_secs(secs), call)
timeout(secs) == Some(secs)

\* store.set_meta("tg_authenticated", "1"), its result dropped by let _.
MarkAuthenticated(d, io) == set_meta(d, "tg_authenticated", <<"1">>, io).db

\* The flag is written before the second factor has been checked.
AfterSignInOrTwoFactor(d, outcome, io) ==
    IF outcome \in {"success", "2fa"} THEN MarkAuthenticated(d, io) ELSE d

\* The store after the match on sign_in's result.
AfterSignIn(d, outcome, io) ==
    IF outcome = "success" THEN MarkAuthenticated(d, io) ELSE d

\* The token slot is not looked at.
MissingTokenIgnored(slot) == FALSE

\* .take().ok_or_else(..)?: the command returns when the slot is empty.
MissingToken(slot) == slot = None

\* The slot keeps its token when the command reads it.
TakeCloned(slot) == slot

\* Option::take: what is left in the slot.
Take(slot) == None

\* The database files the application may start on: none yet, or one that
\* a version with only the trigram step left behind.
DbFileInputs ==
    { [db |-> NewConnection, steps |-> StepsNone],
      [db |-> migrate_to_fts5(create_base_tables(NewConnection)),
       steps |-> [StepsNone EXCEPT ![2] = 1]] }

InitAuth ==
    /\ \E f \in DbFileInputs : db = f.db /\ steps = f.steps
    /\ last = LastNone
    /\ pg = PgIdle
    /\ rt = RtIdle
    /\ runs = RunsIdle
    /\ auth = [AuthIdle EXCEPT !.pc = "closed"]
    /\ lk = LkIdle
    /\ call = CallNone

\* run: Store::open(&db_path), then the fresh AppState.
AppStart ==
    /\ auth.pc = "closed"
    /\ db' = run_migrations(configure(db))
    /\ steps' = StepsAfter(steps, configure(db))
    /\ auth' = [auth EXCEPT !.pc = "idle"]
    /\ UNCHANGED <<last, pg, rt, runs, lk, call>>

\* RunEvent::Exit: the runner is aborted and the process ends; the database
\* and the session file stay on disk.
AppExit ==
    /\ auth.pc = "idle"
    /\ auth' = [AuthIdle EXCEPT !.pc = "closed",
                                !.session_file = auth.session_file,
                                !.completed = auth.completed]
    /\ UNCHANGED <<db, last, pg, rt, runs, steps, lk, call>>

SaveApiCredentials(io1, io2) ==
    /\ auth.pc = "idle"
    /\ LET r1 == set_meta(db, "tg_api_id", <<"1">>, io1)
           r2 == set_meta(r1.db, "tg_api_hash", <<"h">>, io2)
       IN  IF ~r1.ok
           THEN /\ db' = r1.db
                /\ auth' = [auth EXCEPT !.result =
                               CmdErr("save_api_credentials", "store")]
           ELSE /\ db' = r2.db
                /\ auth' = [auth EXCEPT !.result =
                               IF r2.ok THEN CmdOk("save_api_credentials", "")
                               ELSE CmdErr("save_api_credentials", "store")]
    /\ UNCHANGED <<last, pg, rt, runs, steps, lk, call>>

\* connect_telegram up to the probe or to the fresh connection.
\* connected: collector::connect on the kept session succeeds;
\* removed: remove_file succeeds.
ConnectStart(connected, removed) ==
    /\ auth.pc = "idle"
    /\ LET was == is_authenticated(db)
           had == auth.session_file # "none"
           a0 == [auth EXCEPT !.runner = None, !.client = None,
                              !.probe_runner = "none",
                              !.session_file = IF had THEN "old" ELSE "none",
                              !.conn = [was_authenticated |-> was,
                                        had_file |-> had, probe |-> "none"]]
       IN  IF get_meta(db, "tg_api_id") = None
           THEN auth' = [auth EXCEPT !.conn = ConnNone, !.result =
                            CmdErr("connect_telegram", "not_configured")]
           ELSE IF was /\ had
           THEN IF connected
                THEN auth' = [a0 EXCEPT !.pc = "probe",
                                        !.probe_runner = "running",
                                        !.timer = timeout(ProbeTimeoutSecs)]
                ELSE auth' = [a0 EXCEPT !.result =
                                 CmdErr("connect_telegram", "connect")]
           ELSE auth' = [a0 EXCEPT !.pc = "fresh_connect",
                                   !.session_file =
                                       IF had /\ ~removed THEN "old" ELSE "none"]
    /\ UNCHANGED <<db, last, pg, rt, runs, steps, lk, call>>

\* The probe ends: is_authorized answers true or false or fails, or the
\* timer fires.  removed, deleted: remove_file and delete_meta succeed.
ConnectProbe(outcome, removed, deleted) ==
    /\ auth.pc = "probe"
    /\ outcome = "timeout" => auth.timer # None
    /\ IF outcome = "true"
       THEN /\ auth' = [auth EXCEPT !.pc = "idle", !.timer = None,
                                    !.client = Some("kept"),
                                    !.runner = Some("kept"),
                                    !.conn.probe = outcome,
                                    !.result = CmdOk("connect_telegram",
                                                     "authorized")]
            /\ UNCHANGED db
       ELSE LET r == delete_meta(db, "tg_authenticated", deleted)
            IN  /\ db' = r.db
                /\ auth' = [auth EXCEPT !.pc = "fresh_connect", !.timer = None,
                                        !.probe_runner = "aborted",
                                        !.session_file =
                                            IF removed THEN "none" ELSE @,
                                        !.completed = IF r.ok THEN FALSE ELSE @,
                                        !.conn.probe = outcome]
    /\ UNCHANGED <<last, pg, rt, runs, steps, lk, call>>

\* The fresh connection: SqliteSession::open makes the session file when
\* there is none.
ConnectFresh(connected) ==
    /\ auth.pc = "fresh_connect"
    /\ IF connected
       THEN auth' = [auth EXCEPT !.pc = "idle",
                                 !.client = Some("fresh"),
                                 !.runner = Some("fresh"),
                                 !.session_file = IF @ = "none" THEN "new" ELSE @,
                                 !.result = CmdOk("connect_telegram",
                                                  "unauthorized")]
       ELSE auth' = [auth EXCEPT !.pc = "idle", !.result =
                        CmdErr("connect_telegram", "connect")]
    /\ UNCHANGED <<db, last, pg, rt, runs, steps, lk, call>>

\* request_login_code up to its remote call.
RequestCodeStart ==
    /\ auth.pc = "idle"
    /\ IF auth.client = None
       THEN auth' = [auth EXCEPT !.result =
                        CmdErr("request_login_code", "not_connected")]
       ELSE IF get_meta(db, "tg_api_hash") = None
       THEN auth' = [auth EXCEPT !.result =
                        CmdErr("request_login_code", "not_configured")]
       ELSE auth' = [auth EXCEPT !.pc = "request_login_code",
                                 !.timer = timeout(LoginTimeoutSecs)]
    /\ UNCHANGED <<db, last, pg, rt, runs, steps, lk, call>>

\* The call ends or its timer fires.
RequestCodeDone(outcome) ==
    /\ auth.pc = "request_login_code"
    /\ outcome = "timeout" => auth.timer # None
    /\ auth' = [auth EXCEPT
                  !.pc = "idle", !.timer = None,
                  !.login_token = IF outcome = "ok" THEN Some("login_token") ELSE @,
                  !.result = CASE outcome = "ok" -> CmdOk("request_login_code", "")
                               [] outcome = "timeout" ->
                                      CmdErr("request_login_code", "timeout")
                               [] OTHER -> CmdErr("request_login_code", "auth")]
    /\ UNCHANGED <<db, last, pg, rt, runs, steps, lk, call>>

\* submit_login_code up to its remote call: the token is taken.
SubmitCodeStart ==
    /\ auth.pc = "idle"
    /\ IF auth.client = None
       THEN auth' = [auth EXCEPT !.result =
                        CmdErr("submit_login_code", "not_connected")]
       ELSE IF MissingToken(auth.login_token)
       THEN auth' = [auth EXCEPT !.result =
                        CmdErr("submit_login_code", "no_token")]
       ELSE auth' = [auth EXCEPT !.pc = "sign_in", !.timer = None,
                                 !.held = auth.login_token,
                                 !.login_token = Take(auth.login_token)]
    /\ UNCHANGED <<db, last, pg, rt, runs, steps, lk, call>>

\* sign_in ends: signed in, second factor required, or an error.
\* io: the write of the flag is carried out.
SubmitCodeDone(outcome, io) ==
    /\ auth.pc = "sign_in"
    /\ outcome = "timeout" => auth.timer # None
    /\ db' = AfterSignIn(db, outcome, io)
    /\ auth' = [auth EXCEPT
                  !.pc = "idle", !.timer = None, !.held = None,
                  !.completed = IF outcome = "success" THEN TRUE ELSE @,
                  !.password_token =
                      IF outcome = "2fa" THEN Some("password_token") ELSE @,
                  !.result = CASE outcome = "success" ->
                                      CmdOk("submit_login_code", "success")
                               [] outcome = "2fa" ->
                                      CmdOk("submit_login_code", "requires_2fa")
                               [] outcome = "timeout" ->
                                      CmdErr("submit_login_code", "timeout")
                               [] OTHER -> CmdErr("submit_login_code", "auth")]
    /\ UNCHANGED <<last, pg, rt, runs, steps, lk, call>>

\* submit_password up to its remote call: the token is taken.
SubmitPasswordStart ==
    /\ auth.pc = "idle"
    /\ IF auth.client = None
       THEN auth' = [auth EXCEPT !.result =
                        CmdErr("submit_password", "not_connected")]
       ELSE IF MissingToken(auth.password_token)
       THEN auth' = [auth EXCEPT !.result =
                        CmdErr("submit_password", "no_token")]
       ELSE auth' = [auth EXCEPT !.pc = "check_password", !.timer = None,
                                 !.held = auth.password_token,
                                 !.password_token = Take(auth.password_token)]
    /\ UNCHANGED <<db, last, pg, rt, runs, steps, lk, call>>

\* check_password ends.
SubmitPasswordDone(outcome, io) ==
    /\ auth.pc = "check_password"
    /\ outcome = "timeout" => auth.timer # None
    /\ db' = IF outcome = "ok" THEN MarkAuthenticated(db, io) ELSE db
    /\ auth' = [auth EXCEPT
                  !.pc = "idle", !.timer = None, !.held = None,
                  !.completed = IF outcome = "ok" THEN TRUE ELSE @,
                  !.result = CASE outcome = "ok" -> CmdOk("submit_password", "")
                               [] outcome = "timeout" ->
                                      CmdErr("submit_password", "timeout")
                               [] OTHER -> CmdErr("submit_password", "auth")]
    /\ UNCHANGED <<last, pg, rt, runs, steps, lk, call>>

NextAuth ==
    \/ AppStart
    \/ AppExit
    \/ \E io1, io2 \in BOOLEAN : SaveApiCredentials(io1, io2)
    \/ \E connected, removed \in BOOLEAN : ConnectStart(connected, removed)
    \/ \E outcome \in {"true", "false", "error", "timeout"} :
           \E removed, deleted \in BOOLEAN : ConnectProbe(outcome, removed, deleted)
    \/ \E connected \in BOOLEAN : ConnectFresh(connected)
    \/ RequestCodeStart
    \/ \E outcome \in {"ok", "error", "timeout"} : RequestCodeDone(outcome)
    \/ SubmitCodeStart
    \/ \E outcome \in {"success", "2fa", "error", "timeout"}, io \in BOOLEAN :
           SubmitCodeDone(outcome, io)
    \/ SubmitPasswordStart
    \/ \E outcome \in {"ok", "error", "timeout"}, io \in BOOLEAN :
           SubmitPasswordDone(outcome, io)

SpecAuth == InitAuth /\ [][NextAuth]_vars

(***************************************************************************)
(* Properties of SpecAuth.                                                 *)
(***************************************************************************)
ReturnedBy(cmd) == auth.pc = "idle" /\ auth.result # None /\ Get(auth.result).cmd = cmd

\* The command went past its check of the client slot.
PastClientCheck(cmd) == ReturnedBy(cmd) /\ Get(auth.result).val # "not_connected"

\* C38 as stated: once submit_login_code has returned, whatever it returned,
\* the login-token slot is empty, and once submit_password has returned the
\* password-token slot is empty; the command called again goes to no remote
\* call.
C38_SlotEmptyAfterAnyReturn ==
    /\ [](/\ ReturnedBy("submit_login_code") => auth.login_token = None
          /\ ReturnedBy("submit_password") => auth.password_token = None)
    /\ [][/\ ReturnedBy("submit_login_code") => auth'.pc # "sign_in"
          /\ ReturnedBy("submit_password") => auth'.pc # "check_password"]_vars

\* C38, amended: once submit_login_code has returned anything but the
\* not-connected error, the login-token slot is empty, and once
\* submit_password has returned anything but the not-connected error the
\* password-token slot is empty; the command called again goes to no remote
\* call.
C38_TokensSingleUse ==
    /\ [](/\ PastClientCheck("submit_login_code") => auth.login_token = None
          /\ PastClientCheck("submit_password") => auth.password_token = None)
    /\ [][/\ PastClientCheck("submit_login_code") => auth'.pc # "sign_in"
          /\ PastClientCheck("submit_password") => auth'.pc # "check_password"]_vars

\* submit_password, reached through a sign-in that asked for the second
\* factor, has returned an error of the remote call.
C38_Witness ==
    /\ auth.result = CmdErr("submit_password", "auth")
    /\ auth.client # None
    /\ auth.login_token = None
    /\ auth.password_token = None

\* The step ends submit_login_code with a sign-in that needed no second
\* factor, or submit_password with an accepted password.
LoginCompletes ==
    \/ /\ auth.pc = "sign_in"
       /\ auth'.result = CmdOk("submit_login_code", "success")
    \/ /\ auth.pc = "check_password"
       /\ auth'.result = CmdOk("submit_password", "")

\* C12: the authenticated flag is 1 only if a login went through since the
\* flag was last cleared, and it goes from unset to 1 only in the step that
\* ends a successful sign-in or a successful password check; no other step
\* (request of the code, failed or two-factor sign-in, failed password
\* check, connect, saving the credentials, start, exit) sets it.
C12_FlagOnlyAfterCompletedLogin ==
    [][/\ is_authenticated(db') => auth'.completed
       /\ (~is_authenticated(db) /\ is_authenticated(db')) => LoginCompletes]_vars

\* The flag was set by a password check that followed a two-factor sign-in.
C12_Witness ==
    /\ is_authenticated(db)
    /\ auth.result = CmdOk("submit_password", "")

\* C13: when submit_login_code has reported success without a second factor,
\* or submit_password has returned ok, the flag is 1.
C13_SuccessImpliesFlag ==
    (auth.pc = "idle" /\ auth.result \in {CmdOk("submit_login_code", "success"),
                                         CmdOk("submit_password", "")})
        => is_authenticated(db)

\* The probe of the last connect ran and did not answer true.
ProbeFailed ==
    /\ auth.conn.was_authenticated /\ auth.conn.had_file
    /\ auth.conn.probe \in {"false", "error", "timeout"}

\* C14: connect has returned its result after a probe that timed out,
\* failed or answered false: the result is authorized = false, the probed
\* client's runner is aborted, the old session file is gone, the flag is
\* cleared and the client slot holds the freshly connected client; and a
\* result of authorized = true comes only with the flag set, the file there
\* and the probe answering true.
C14_StaleSessionCleanedUp ==
    (ReturnedBy("connect_telegram") /\ Get(auth.result).ok) =>
        /\ ProbeFailed =>
              /\ auth.result = CmdOk("connect_telegram", "unauthorized")
              /\ auth.probe_runner = "aborted"
              /\ auth.session_file # "old"
              /\ ~is_authenticated(db)
              /\ auth.client = Some("fresh")
        /\ auth.result = CmdOk("connect_telegram", "authorized") =>
              /\ auth.conn.was_authenticated /\ auth.conn.had_file
              /\ auth.conn.probe = "true"

\* The step ends a command with the error of a missing client or token.
RefusedStep ==
    /\ auth'.result # auth.result
    /\ auth'.result # None
    /\ ~Get(auth'.result).ok
    /\ Get(auth'.result).val \in {"not_connected", "no_token"}

\* C15: sign_in is awaited only with a client and with the login token taken
\* from the slot, which only a successful request_login_code fills;
\* check_password only with a client and the password token, which only a
\* two-factor sign-in fills; the flag is set only from one of these two
\* calls; and a command that finds no client or no token returns its error
\* in the step it began in, without a remote call.
C15_LoginOrder ==
    [][/\ auth'.pc = "request_login_code" => (auth'.client # None)
       /\ auth'.pc = "sign_in" =>
              (auth'.client # None /\ auth'.held = Some("login_token"))
       /\ auth'.pc = "check_password" =>
              (auth'.client # None /\ auth'.held = Some("password_token"))
       /\ (auth.login_token = None /\ auth'.login_token # None) =>
              (auth.pc = "request_login_code"
                   /\ auth'.result = CmdOk("request_login_code", ""))
       /\ (auth.password_token = None /\ auth'.password_token # None) =>
              (auth.pc = "sign_in"
                   /\ auth'.result = CmdOk("submit_login_code", "requires_2fa"))
       /\ (~is_authenticated(db) /\ is_authenticated(db')) =>
              auth.pc \in {"sign_in", "check_password"}
       /\ RefusedStep => (auth.pc = "idle" /\ auth'.pc = "idle"
                              /\ auth'.timer = None)]_vars

\* Connected, code requested, second factor pending, then authenticated
\* with both tokens used up; the next submit_password is refused.
C15_Witness ==
    /\ auth.result = CmdErr("submit_password", "no_token")
    /\ auth.client = Some("fresh")
    /\ auth.login_token = None /\ auth.password_token = None
    /\ auth.completed /\ is_authenticated(db)

\* C16: every remote call of the login flow (request of the code, sign-in,
\* password check) is awaited under a 15-second timer.
C16_LoginCallsTimeBounded ==
    auth.pc \in {"request_login_code", "sign_in", "check_password"}
        => auth.timer = Some(LoginTimeoutSecs)

(***************************************************************************)
(* Specification SpecMeta: the store by itself: Store::open on a database  *)
(* file, run_migrations on the open store, and get_meta, set_meta and      *)
(* delete_meta with the keys and values the store's callers and tests use. *)
(*   last  : the most recent operation (op "none": not yet opened)         *)
(*   steps : how often each migration step's body has run on the database *)
(***************************************************************************)
MetaKeyInputs == {"schema_version", "key"}

MetaValueInputs == {<<"1">>, <<"2">>, <<"x">>}

\* The step counters stay within the bound.
StepsBounded(st) == \A v \in {2, 3} : st[v] <= MaxStepRuns

InitMeta ==
    /\ \E f \in DbFileInputs : db = f.db /\ steps = f.steps
    /\ last = LastNone
    /\ pg = PgIdle
    /\ rt = RtIdle
    /\ runs = RunsIdle
    /\ auth = AuthIdle
    /\ lk = LkIdle
    /\ call = CallNone

\* Store::open: a connection to the database file, configured and migrated.
StoreOpen ==
    /\ StepsBounded(StepsAfter(steps, configure(db)))
    /\ db' = run_migrations(configure(db))
    /\ steps' = StepsAfter(steps, configure(db))
    /\ last' = LastOp("open", TRUE)
    /\ UNCHANGED <<pg, rt, runs, auth, lk, call>>

\* schema::run_migrations(store.conn()) on the open store.
StoreMigrate ==
    /\ last.op # "none"
    /\ StepsBounded(StepsAfter(steps, db))
    /\ Migrate

GetMeta(key) ==
    /\ last.op # "none"
    /\ last' = LastOp("get_meta", get_meta(db, key) # None)
    /\ UNCHANGED <<db, pg, rt, runs, auth, steps, lk, call>>

SetMeta(key, value, io) ==
    /\ last.op # "none"
    /\ LET r == set_meta(db, key, value, io)
       IN  /\ db' = r.db
           /\ last' = LastOp("set_meta", r.ok)
    /\ UNCHANGED <<pg, rt, runs, auth, steps, lk, call>>

DeleteMeta(key, io) ==
    /\ last.op # "none"
    /\ LET r == delete_meta(db, key, io)
       IN  /\ db' = r.db
           /\ last' = LastOp("delete_meta", r.ok)
    /\ UNCHANGED <<pg, rt, runs, auth, steps, lk, call>>

NextMeta ==
    \/ StoreOpen
    \/ StoreMigrate
    \/ \E key \in MetaKeyInputs : GetMeta(key)
    \/ \E key \in MetaKeyInputs, value \in MetaValueInputs, io \in BOOLEAN :
           SetMeta(key, value, io)
    \/ \E key \in MetaKeyInputs, io \in BOOLEAN : DeleteMeta(key, io)

SpecMeta == InitMeta /\ [][NextMeta]_vars

(***************************************************************************)
(* Properties of SpecMeta.                                                 *)
(***************************************************************************)
\* C18: over the store's operations (open, run_migrations, get_meta,
\* set_meta, delete_meta) the schema version never decreases, the body of
\* each migration step runs at most once on a database, and a run of the
\* migrator executes exactly the steps whose number is above the version
\* stored before it (1 when missing).
C18_VersionMonotoneStepsOnce ==
    [][/\ get_schema_version(db') >= get_schema_version(db)
       /\ \A v \in {2, 3} : steps'[v] <= 1
       /\ last'.op \in {"open", "run_migrations"} =>
              \A v \in {2, 3} :
                  steps'[v] = steps[v] + IF v > get_schema_version(db) THEN 1 ELSE 0
       /\ last'.op \notin {"open", "run_migrations"} => steps' = steps]_vars

(***************************************************************************)
(* Specification SpecRun: one collection or sync run with streams of       *)
(* several messages, while the user excludes and includes dialogs and      *)
(* other callers insert rows.                                              *)
(***************************************************************************)
s_tabs == <<"a", "\t", "b", "\n", " ", "c">>

\* What the server may answer to a task: three messages, newest first, one
\* of them without text; one message with text of several kinds of
\* whitespace; an error that is no flood-wait.
RunStreams ==
    { [msgs |-> << [id |-> 3, date |-> 1002, text |-> s_Ab_c],
                   [id |-> 2, date |-> 1001, text |-> <<>>],
                   [id |-> 1, date |-> 1000, text |-> s_abc] >>, end |-> None],
      [msgs |-> << [id |-> 4, date |-> 1003, text |-> s_tabs] >>, end |-> None],
      [msgs |-> <<>>, end |-> Some(RpcError("CHANNEL_PRIVATE", None))] }

RunFetchChatsInputs == {Err(Api(IoError)), Ok(SubSeq(Dialogs, 1, 2))}

\* Rows that other callers insert: one with the key of a fetched message.
RunBatchInputs == {<<MessageRow(1, 1, 1000, s_abc)>>, <<MessageRow(1, 2, 1000, s_Ab_c)>>}

\* The store before the run: new, or with the dialogs of an earlier
\* dialog-list fetch.
InitRun ==
    /\ db \in {OpenStore, UpsertAll(OpenStore, SubSeq(Dialogs, 1, 2), 1)}
    /\ last = LastNone
    /\ pg = PgIdle
    /\ rt = RtIdle
    /\ runs = RunsIdle
    /\ auth = AuthIdle
    /\ steps = StepsOfOpenStore
    /\ lk = LkIdle
    /\ call = CallNone

NextRun ==
    \/ \E f \in RunFetchChatsInputs : StartCollection(1, f)
    \/ StartSync(1)
    \/ \E i \in 1..MaxTasks : TaskAcquire(1, i)
    \/ \E i \in 1..MaxTasks, stream \in RunStreams : TaskFinish(1, i, stream)
    \/ \E i \in 1..MaxTasks : TaskPanic(1, i)
    \/ JoinCollection(1)
    \/ JoinSync(1)
    \/ EndRun(1)
    \/ \E c \in {1, 2}, excluded \in BOOLEAN : SetChatExcluded(c, excluded)
    \/ \E batch \in RunBatchInputs : InsertBatch(batch)

SpecRun == InitRun /\ [][NextRun]_vars

(***************************************************************************)
(* Properties of SpecRun.                                                  *)
(***************************************************************************)
\* The text without its whitespace characters.
WithoutWhitespace(text) == SelectSeq(text, LAMBDA ch : ~IsWhitespace(ch))

\* C23: every message row in the store, after any sequence of batch inserts
\* and collector runs, has text_stripped equal to its text_plain with every
\* whitespace character removed, and stripping the stripped text changes
\* nothing.
C23_StrippedIsStripOfPlain ==
    \A k \in DOMAIN db.messages :
        /\ db.messages[k].text_stripped = WithoutWhitespace(db.messages[k].text_plain)
        /\ strip_whitespace(db.messages[k].text_stripped) = db.messages[k].text_stripped

\* The store holds a row a collector run fetched, whose text has a tab, a
\* line feed and a blank, and a row of a batch insert with a blank.
C23_Witness ==
    /\ \E k \in DOMAIN db.messages :
           /\ db.messages[k].text_plain = s_tabs
           /\ db.messages[k].text_stripped = s_abc
           /\ db.messages[k].link # None
    /\ \E k \in DOMAIN db.messages :
           /\ db.messages[k].text_plain = s_Ab_c
           /\ db.messages[k].link = None

\* The ids of the messages stored for a dialog.
StoredIds(c) == {k[2] : k \in {q \in DOMAIN db.messages : q[1] = c}}

\* Task i of the run was joined and its rows were handed to the store.
PersistedBy(run, i) ==
    /\ run.tasks[i].st = "joined"
    /\ Succeeded(run.tasks[i])
    /\ Get(run.tasks[i].result).rows # <<>>
    /\ Persisted(Get(run.tasks[i].result).rows)

\* C26: once a collection run or an incremental sync has persisted messages
\* of a dialog, the dialog has a sync bookmark and its last_message_id is
\* the highest message id stored for the dialog.
C26_BookmarkIsHighestStored ==
    \A i \in 1..Len(runs[1].tasks) :
        PersistedBy(runs[1], i) =>
            LET c == runs[1].chats[i].chat_id
                bookmark == get_sync_state(db, c)
            IN  /\ bookmark # None
                /\ \A m \in StoredIds(c) : m <= Get(bookmark).last_message_id
                /\ Get(bookmark).last_message_id \in StoredIds(c)

\* C27: no message iteration is issued for a dialog whose excluded flag is
\* set in the store: whenever a task of a run starts to fetch, its dialog is
\* not excluded at that moment.
C27_ExcludedNeverFetched ==
    [][\A i \in 1..Len(runs[1].tasks) :
           (runs[1].tasks[i].st = "waiting" /\ runs'[1].tasks[i].st = "fetching")
               => ~db.chats[runs[1].chats[i].chat_id].is_excluded]_vars

\* C29: in a collection run chats_done, the value of each message-phase
\* progress event, goes up by one from event to event, never exceeds
\* chats_total, the number of dialogs scheduled, and equals it when
\* collection-complete is emitted.
C29_ProgressCountsToTotal ==
    [][runs'[1].kind = "collection" =>
           /\ runs'[1].chats_done \in
                  {0, runs[1].chats_done, runs[1].chats_done + 1}
           /\ runs'[1].chats_done <= Len(runs'[1].chats)
           /\ runs'[1].pc = "done" => runs'[1].chats_done = Len(runs'[1].chats)]_vars

(***************************************************************************)
(* Specification SpecOrder: the mutexes of AppState and the order in which *)
(* the commands take them.  A command is followed along the lock() calls,  *)
(* guard drops, awaits and returns of one of its paths; a lock() waits     *)
(* until the mutex is free.                                                *)
(*   lk.holder[m] : the task that holds mutex m                            *)
(*   lk.task[t]   : the command task t runs, its path and its position     *)
(***************************************************************************)
Mutexes == {"client", "login_token", "password_token", "runner_handle", "store"}

Acq(m) == <<"lock", m>>

Rel(m) == <<"drop", m>>

Await == <<"await", "">>

Ret == <<"ret", "">>

\* connect_telegram: every guard is a block's or a statement's own; no two
\* are held together.  Reused session, failed probe, fresh connection.
connect_telegram_locks ==
    { <<Acq("store"), Rel("store"), Acq("runner_handle"), Rel("runner_handle"),
        Acq("client"), Rel("client"), Await, Await,
        Acq("client"), Rel("client"), Acq("runner_handle"), Rel("runner_handle"),
        Ret>>,
      <<Acq("store"), Rel("store"), Acq("runner_handle"), Rel("runner_handle"),
        Acq("client"), Rel("client"), Await, Await, Acq("store"), Rel("store"),
        Await, Acq("client"), Rel("client"),
        Acq("runner_handle"), Rel("runner_handle"), Ret>>,
      <<Acq("store"), Rel("store"), Acq("runner_handle"), Rel("runner_handle"),
        Acq("client"), Rel("client"), Await, Acq("client"), Rel("client"),
        Acq("runner_handle"), Rel("runner_handle"), Ret>> }

\* request_login_code: client_guard lives to the end of the function.
request_login_code_locks ==
    { <<Acq("client"), Rel("client"), Ret>>,
      <<Acq("client"), Acq("store"), Rel("store"), Await,
        Acq("login_token"), Rel("login_token"), Rel("client"), Ret>> }

submit_login_code_locks ==
    { <<Acq("client"), Acq("login_token"), Rel("login_token"), Await,
        Acq("store"), Rel("store"), Rel("client"), Ret>>,
      <<Acq("client"), Acq("login_token"), Rel("login_token"), Await,
        Acq("password_token"), Rel("password_token"), Rel("client"), Ret>> }

\* submit_password taking the token's mutex before the client's.
submit_password_token_first ==
    { <<Acq("password_token"), Acq("client"), Rel("password_token"), Await,
        Acq("store"), Rel("store"), Rel("client"), Ret>> }

submit_password_locks ==
    { <<Acq("client"), Acq("password_token"), Rel("password_token"), Await,
        Acq("store"), Rel("store"), Rel("client"), Ret>> }

\* start_collection clones the client; the thread it spawns runs
\* run_collection: the dialogs and each joined batch are stored under a
\* guard of their own.
start_collection_locks ==
    { <<Acq("client"), Rel("client"), Ret>>,
      <<Acq("client"), Rel("client"), Await, Acq("store"), Rel("store"), Await,
        Acq("store"), Rel("store"), Await, Ret>> }

\* search_messages and the other commands of lib.rs that use the store.
search_locks == { <<Acq("store"), Rel("store"), Ret>> }

OrderCommands ==
    connect_telegram_locks \cup request_login_code_locks
        \cup submit_login_code_locks \cup submit_password_locks
        \cup start_collection_locks \cup search_locks

InitOrder ==
    /\ db = OpenStore
    /\ last = LastNone
    /\ pg = PgIdle
    /\ rt = RtIdle
    /\ runs = RunsIdle
    /\ auth = AuthIdle
    /\ steps = StepsOfOpenStore
    /\ lk = [holder |-> [m \in Mutexes |-> None],
             task |-> [t \in 1..MaxLockTasks |-> LkTaskIdle]]
    /\ call = CallNone

\* The step task t is at.
StepAt(t) ==
    IF lk.task[t].pc = 0 THEN <<"none", "">> ELSE lk.task[t].path[lk.task[t].pc]

\* A command is invoked.
OrderCall(t, path) ==
    /\ lk.task[t].pc = 0
    /\ lk' = [lk EXCEPT !.task[t] = [fn |-> "command", path |-> path, pc |-> 1]]
    /\ UNCHANGED <<db, last, pg, rt, runs, auth, steps, call>>

\* lock() returns the guard once the mutex is free.
OrderLock(t) ==
    /\ StepAt(t)[1] = "lock"
    /\ lk.holder[StepAt(t)[2]] = None
    /\ lk' = [lk EXCEPT !.holder[StepAt(t)[2]] = Some(t), !.task[t].pc = @ + 1]
    /\ UNCHANGED <<db, last, pg, rt, runs, auth, steps, call>>

\* The guard goes out of scope.
OrderDrop(t) ==
    /\ StepAt(t)[1] = "drop"
    /\ lk' = [lk EXCEPT !.holder[StepAt(t)[2]] = None, !.task[t].pc = @ + 1]
    /\ UNCHANGED <<db, last, pg, rt, runs, auth, steps, call>>

\* The awaited remote call, timeout or join returns.
OrderResume(t) ==
    /\ StepAt(t)[1] = "await"
    /\ lk' = [lk EXCEPT !.task[t].pc = @ + 1]
    /\ UNCHANGED <<db, last, pg, rt, runs, auth, steps, call>>

OrderReturn(t) ==
    /\ StepAt(t)[1] = "ret"
    /\ lk' = [lk EXCEPT !.task[t] = LkTaskIdle]
    /\ UNCHANGED <<db, last, pg, rt, runs, auth, steps, call>>

NextOrder ==
    \/ \E t \in 1..MaxLockTasks, path \in OrderCommands : OrderCall(t, path)
    \/ \E t \in 1..MaxLockTasks : OrderLock(t)
    \/ \E t \in 1..MaxLockTasks : OrderDrop(t)
    \/ \E t \in 1..MaxLockTasks : OrderResume(t)
    \/ \E t \in 1..MaxLockTasks : OrderReturn(t)

SpecOrder == InitOrder /\ [][NextOrder]_vars

(***************************************************************************)
(* Properties of SpecOrder.                                                *)
(***************************************************************************)
\* The mutexes task t holds.
HeldBy(t) == {m \in Mutexes : lk.holder[m] = Some(t)}

\* Task t is at a lock() of a mutex that a task of S holds.
WaitsOn(t, S) ==
    /\ StepAt(t)[1] = "lock"
    /\ \E u \in S : lk.holder[StepAt(t)[2]] = Some(u)

\* C35: the mutexes are taken in one order - the client slot before any
\* other, and none of the others while another is held - and no set of
\* tasks is ever such that each waits for a mutex held by a task of the set.
C35_LockOrderNoDeadlock ==
    /\ \A t \in 1..MaxLockTasks :
           /\ HeldBy(t) \in {{}} \cup {{m} : m \in Mutexes}
                            \cup {{"client", m} : m \in Mutexes}
           /\ (StepAt(t)[1] = "lock" /\ HeldBy(t) # {}) =>
                  (HeldBy(t) = {"client"} /\ StepAt(t)[2] # "client")
    /\ \A S \in (SUBSET (1..MaxLockTasks)) \ {{}} :
           ~(\A t \in S : WaitsOn(t, S))

\* submit_login_code holds the client slot and waits for the store while a
\* search holds the store.
C35_Witness ==
    \E t, u \in 1..MaxLockTasks :
        /\ HeldBy(t) = {"client"}
        /\ StepAt(t) = Acq("store")
        /\ HeldBy(u) = {"store"}

(***************************************************************************)
(* Specification SpecCrash: Store::open on a database of schema version 2, *)
(* the process dying between two statements of step 3 and the store being  *)
(* opened again.                                                           *)
(*   call.fn   : none, run_migrations (inside step 3), crashed, opened     *)
(*   call.args : the dialog rows before the first run                      *)
(*   call.out  : the statement of step 3 to execute next                   *)
(***************************************************************************)
\* A database file left by the version of the program before step 3: the
\* first n dialogs, a message of the first of them, the second excluded or
\* not.
Version2Store(n, excluded) ==
    LET d0 == UpsertAll(OpenStore, SubSeq(Dialogs, 1, n), 1)
        d1 == IF n >= 1
              THEN insert_messages_batch(d0, <<MessageRow(1, 1, 1000, s_abc)>>).db
              ELSE d0
        d2 == IF n >= 2 /\ excluded THEN set_chat_excluded(d1, 2, TRUE) ELSE d1
    IN  [d2 EXCEPT !.meta = Put(@, "schema_version", <<"2">>)]

InitCrash ==
    /\ db \in {Version2Store(n, excluded) : n \in 0..Len(Dialogs), excluded \in BOOLEAN}
    /\ last = LastNone
    /\ pg = PgIdle
    /\ rt = RtIdle
    /\ runs = RunsIdle
    /\ auth = AuthIdle
    /\ steps = StepsOfOpenStore
    /\ lk = LkIdle
    /\ call = CallNone

\* Store::open on the file: configure, the base tables and step 2, up to
\* the version check of step 3.
OpenBegin ==
    /\ call.fn \in {"none", "crashed"}
    /\ LET d == migrate_to_fts5(create_base_tables(configure(db)))
       IN  /\ db' = d
           /\ call' = [fn |-> IF StepApplies(d, 3) THEN "run_migrations" ELSE "opened",
                       args |-> IF call.fn = "none" THEN <<db.chats>> ELSE call.args,
                       out |-> <<1>>]
    /\ UNCHANGED <<last, pg, rt, runs, auth, steps, lk>>

\* The next statement of step 3 is executed and committed.
OpenStatement ==
    /\ call.fn = "run_migrations"
    /\ db' = Step3Stmt(db, call.out[1])
    /\ call' = [call EXCEPT !.fn = IF call.out[1] = Step3Statements
                                   THEN "opened" ELSE @,
                            !.out = <<call.out[1] + 1>>]
    /\ UNCHANGED <<last, pg, rt, runs, auth, steps, lk>>

\* The process dies: the file keeps what was committed, the settings of the
\* connection are gone.
ProcessDies ==
    /\ call.fn = "run_migrations"
    /\ db' = [db EXCEPT !.foreign_keys = FALSE, !.in_txn = FALSE]
    /\ call' = [call EXCEPT !.fn = "crashed"]
    /\ UNCHANGED <<last, pg, rt, runs, auth, steps, lk>>

NextCrash ==
    \/ OpenBegin
    \/ OpenStatement
    \/ ProcessDies

SpecCrash == InitCrash /\ [][NextCrash]_vars

(***************************************************************************)
(* Properties of SpecCrash.                                                *)
(***************************************************************************)
\* C32: however often the process died between two statements of step 3,
\* the store that is open in the end has schema version 3 and every dialog
\* row the file had before the first run.
C32_Step3CrashSafe ==
    call.fn = "opened" =>
        /\ get_schema_version(db) = 3
        /\ \A c \in DOMAIN call.args[1] :
               c \in DOMAIN db.chats /\ db.chats[c] = call.args[1][c]

(***************************************************************************)
(* Specification SpecTask: one collection or sync run followed through the *)
(* steps of its tasks.  A task acquires a permit of the run's semaphore,   *)
(* sleeps 100 ms unless it is the first, enters its title in the list of   *)
(* active titles (collection), fetches with up to MAX_FLOOD_RETRIES        *)
(* retries, takes its title out and returns; the run joins the ended       *)
(* tasks one by one and emits its events.                                  *)
(*   runs[1].sem          : the permits the semaphore has left             *)
(*   runs[1].titles       : active_titles                                  *)
(*   runs[1].events       : the names of the events emitted, oldest first  *)
(*   runs[1].progress     : the payload of the last message-phase event    *)
(*   runs[1].tasks[i]     : st (waiting, stagger, fetch, sleep, finished,  *)
(*                          panicked, joined, aborted), the attempt of the *)
(*                          retry loop, whether the task holds a permit,   *)
(*                          and the result it returned                     *)
(***************************************************************************)
TaskInit == [st |-> "waiting", attempt |-> 0, permit |-> FALSE, result |-> None]

\* The dialogs of the account: four, the first two with the same title.
TaskDialogs ==
    << [DialogRow(1, "group") EXCEPT !.title = TitleOf(2)],
       DialogRow(2, "supergroup"), DialogRow(3, "group"),
       DialogRow(4, "supergroup") >>

TaskFetchChatsInputs == {Err(Api(IoError)), Ok(TaskDialogs)}

\* The server's answer to one attempt at a dialog: a message for every
\* dialog, a flood-wait for dialog 1, another error for dialog 3.
AttemptStreams(c) ==
    { [msgs |-> << [id |-> 1, date |-> 1000, text |-> s_abc] >>, end |-> None] }
    \cup (IF c = 1
          THEN {[msgs |-> <<>>, end |-> Some(RpcError("FLOOD_WAIT", Some(1)))]}
          ELSE {})
    \cup (IF c = 3
          THEN {[msgs |-> <<>>, end |-> Some(RpcError("CHANNEL_PRIVATE", None))]}
          ELSE {})

AllAttemptStreams == UNION {AttemptStreams(c) : c \in 1..Len(TaskDialogs)}

\* The dialogs whose fetch may panic.
PanickingDialogs == {2}

\* The payload of a message-phase collection-progress event.
Progress(done, total, active) ==
    [chats_done |-> done, chats_total |-> total, active_chats |-> active]

\* titles.retain(|t| t != &chat.title)
Retain(titles, title) == SelectSeq(titles, LAMBDA t : t # title)

\* The permit of a task that sleeps before its retry is given back.
ReleaseOnSleep(t) == [t EXCEPT !.permit = FALSE]

\* The task's _permit lives to the end of the task's block: a sleep inside
\* fetch_messages_with_retry leaves it with the task.
KeepOnSleep(t) == t

\* Every enumerated dialog is written with the flag it is enumerated with.
StoreDialogsReplacing(d, rows) ==
    LET u == UpsertAll(d, rows, 1)
    IN  [u EXCEPT !.chats =
            [c \in DOMAIN u.chats |->
                IF \E i \in 1..Len(rows) : rows[i].chat_id = c
                THEN [u.chats[c] EXCEPT !.is_excluded = FALSE]
                ELSE u.chats[c]]]

\* for row in &chat_rows { store.upsert_chat(row) }
StoreDialogs(d, rows) == UpsertAll(d, rows, 1)

InitTask ==
    /\ db \in {OpenStore, UpsertAll(OpenStore, TaskDialogs, 1)}
    /\ last = LastNone
    /\ pg = PgIdle
    /\ rt = RtIdle
    /\ runs = RunsIdle
    /\ auth = AuthIdle
    /\ steps = StepsOfOpenStore
    /\ lk = LkIdle
    /\ call = CallNone

\* run_collection up to the spawning of the tasks, or to its return when
\* fetch_chats failed.
BeginCollection(fetched) ==
    /\ runs[1].pc = "idle"
    /\ IF ~fetched.ok
       THEN /\ runs' = [runs EXCEPT ![1].pc = "error", ![1].kind = "collection",
                                    ![1].events = <<"collection-progress:chats",
                                                   "collection-error">>]
            /\ UNCHANGED db
       ELSE LET d == StoreDialogs(db, fetched.rows)
                chats == SortByPriority(FilterSeq(fetched.rows, get_active_chats(d)))
            IN  /\ db' = d
                /\ runs' = [runs EXCEPT ![1] =
                              [RunIdle EXCEPT !.pc = "running",
                                              !.kind = "collection",
                                              !.chats = chats,
                                              !.oldest = [i \in 1..Len(chats) |-> None],
                                              !.tasks = [i \in 1..Len(chats) |-> TaskInit],
                                              !.events = <<"collection-progress:chats">>]]
    /\ UNCHANGED <<last, pg, rt, auth, steps, lk, call>>

\* incremental_sync up to the spawning of the tasks.
BeginSync ==
    /\ runs[1].pc = "idle"
    /\ \E chats \in ActiveChatLists(db) :
           runs' = [runs EXCEPT ![1] =
                      [RunIdle EXCEPT !.pc = "running", !.kind = "sync",
                                      !.chats = chats,
                                      !.oldest = SyncBookmarks(db, chats),
                                      !.tasks = [i \in 1..Len(chats) |-> TaskInit]]]
    /\ UNCHANGED <<db, last, pg, rt, auth, steps, lk, call>>

\* The title of a collection task enters active_titles.
Tracked(run, i) ==
    IF run.kind = "collection" THEN Append(run.titles, run.chats[i].title)
    ELSE run.titles

\* sem.acquire() returns; the first task goes on to its fetch, the others
\* to their sleep of 100 ms.
Acquire(i) ==
    /\ runs[1].pc = "running"
    /\ i \in 1..Len(runs[1].tasks)
    /\ runs[1].tasks[i].st = "waiting"
    /\ runs[1].sem > 0
    /\ runs' = [runs EXCEPT ![1].sem = @ - 1,
                            ![1].tasks[i].permit = TRUE,
                            ![1].tasks[i].st = IF i > 1 THEN "stagger" ELSE "fetch",
                            ![1].titles = IF i > 1 THEN @ ELSE Tracked(runs[1], i)]
    /\ UNCHANGED <<db, last, pg, rt, auth, steps, lk, call>>

\* The sleep of 100 ms ends.
Wake(i) ==
    /\ runs[1].pc = "running"
    /\ i \in 1..Len(runs[1].tasks)
    /\ runs[1].tasks[i].st = "stagger"
    /\ runs' = [runs EXCEPT ![1].tasks[i].st = "fetch",
                            ![1].titles = Tracked(runs[1], i)]
    /\ UNCHANGED <<db, last, pg, rt, auth, steps, lk, call>>

\* The task ends: its block is left (or unwound) and the permit dropped.
Ended(run, i, st, result) ==
    [run EXCEPT !.tasks[i] = [st |-> st, attempt |-> @.attempt,
                              permit |-> FALSE, result |-> result],
                !.sem = IF run.tasks[i].permit THEN @ + 1 ELSE @,
                !.ready = Append(@, i)]

\* One pass of the loop of fetch_messages_with_retry inside the task: the
\* sleep of a flood-wait, or the return, after which the title is taken out
\* of active_titles.
Attempt(i, stream) ==
    /\ runs[1].pc = "running"
    /\ i \in 1..Len(runs[1].tasks)
    /\ runs[1].tasks[i].st = "fetch"
    /\ stream \in AttemptStreams(runs[1].chats[i].chat_id)
    /\ LET run == runs[1]
           r == fetch_messages(run.chats[i], run.oldest[i], stream)
       IN  IF ~r.ok /\ Get(r.err).kind = "FloodWait" /\ MayRetry(run.tasks[i].attempt)
           THEN LET slept == [run EXCEPT !.tasks[i] =
                                 KeepOnSleep([@ EXCEPT !.st = "sleep"])]
                IN  runs' = [runs EXCEPT ![1] =
                               [slept EXCEPT !.sem =
                                   IF run.tasks[i].permit /\ ~slept.tasks[i].permit
                                   THEN @ + 1 ELSE @]]
           ELSE runs' = [runs EXCEPT ![1] =
                           [Ended(run, i, "finished", Some(r)) EXCEPT
                               !.titles = IF run.kind = "collection"
                                          THEN Retain(@, run.chats[i].title)
                                          ELSE @]]
    /\ UNCHANGED <<db, last, pg, rt, auth, steps, lk, call>>

\* The sleep of a flood-wait ends and the loop goes on.
SleepEnds(i) ==
    /\ runs[1].pc = "running"
    /\ i \in 1..Len(runs[1].tasks)
    /\ runs[1].tasks[i].st = "sleep"
    /\ runs' = [runs EXCEPT ![1].tasks[i].st = "fetch",
                            ![1].tasks[i].attempt = @ + 1]
    /\ UNCHANGED <<db, last, pg, rt, auth, steps, lk, call>>

\* The task panics inside its fetch.
Unwind(i) ==
    /\ runs[1].pc = "running"
    /\ i \in 1..Len(runs[1].tasks)
    /\ runs[1].tasks[i].st = "fetch"
    /\ runs[1].chats[i].chat_id \in PanickingDialogs
    /\ runs' = [runs EXCEPT ![1] = Ended(runs[1], i, "panicked", None)]
    /\ UNCHANGED <<db, last, pg, rt, auth, steps, lk, call>>

\* One pass of the join loop of the run.
JoinNext ==
    /\ runs[1].pc = "running"
    /\ runs[1].ready # <<>>
    /\ LET run == runs[1]
           i == Head(run.ready)
           t == run.tasks[i]
           popped == [run EXCEPT !.ready = Tail(@),
                                 !.tasks[i] = [@ EXCEPT !.st = "joined",
                                                        !.result = None]]
           counted == [popped EXCEPT
                          !.chats_done = @ + 1,
                          !.events = Append(@, "collection-progress:messages"),
                          !.progress = Some(Progress(run.chats_done + 1,
                                                     Len(run.chats), run.titles))]
       IN  IF t.st = "panicked"
           THEN /\ runs' = [runs EXCEPT ![1] = popped]
                /\ UNCHANGED db
           ELSE IF ~Get(t.result).ok
           THEN /\ runs' = [runs EXCEPT ![1] =
                              IF run.kind = "collection" THEN counted ELSE popped]
                /\ UNCHANGED db
           ELSE LET rows == Get(t.result).rows
                    ins == IF rows # <<>> THEN insert_messages_batch(db, rows)
                           ELSE [ok |-> TRUE, db |-> db]
                IN  /\ db' = ins.db
                    /\ runs' = [runs EXCEPT ![1] =
                                  IF run.kind = "collection" THEN counted
                                  ELSE IF ins.ok
                                  THEN [popped EXCEPT !.total = @ + Len(rows)]
                                  ELSE AbortOnFetchError(popped)]
    /\ UNCHANGED <<last, pg, rt, auth, steps, lk, call>>

\* join_next returning None as soon as no ended task is left to return.
JoinSetIdle(run) == run.ready = <<>>

\* join_next returns None when the set holds no task any more.
JoinSetEmpty(run) == \A i \in 1..Len(run.tasks) : run.tasks[i].st = "joined"

\* join_next returns None: collection-complete is emitted, or the sync
\* returns its total.
Complete ==
    /\ runs[1].pc = "running"
    /\ JoinSetEmpty(runs[1])
    /\ runs' = [runs EXCEPT ![1].pc = "done",
                            ![1].events =
                                IF runs[1].kind = "collection"
                                THEN Append(@, "collection-complete")
                                ELSE @]
    /\ UNCHANGED <<db, last, pg, rt, auth, steps, lk, call>>

\* The user excludes the account's last dialog, or includes it again.
NextTask ==
    \/ \E excluded \in BOOLEAN : SetChatExcluded(Len(TaskDialogs), excluded)
    \/ \E f \in TaskFetchChatsInputs : BeginCollection(f)
    \/ BeginSync
    \/ \E i \in 1..Len(TaskDialogs) : Acquire(i)
    \/ \E i \in 1..Len(TaskDialogs) : Wake(i)
    \/ \E i \in 1..Len(TaskDialogs), stream \in AllAttemptStreams :
           Attempt(i, stream)
    \/ \E i \in 1..Len(TaskDialogs) : SleepEnds(i)
    \/ \E i \in 1..Len(TaskDialogs) : Unwind(i)
    \/ JoinNext
    \/ Complete

SpecTask == InitTask /\ [][NextTask]_vars

\* The run with its remote calls and sleeps returning and its tasks and
\* join loop scheduled: every step of a started run is taken in the end.
FairTask ==
    /\ \A i \in 1..Len(TaskDialogs) :
           /\ WF_vars(Acquire(i))
           /\ WF_vars(Wake(i))
           /\ WF_vars(\E stream \in AllAttemptStreams : Attempt(i, stream))
           /\ WF_vars(SleepEnds(i))
    /\ WF_vars(JoinNext)
    /\ WF_vars(Complete)

\* The steps of a collection run.
NextCollection ==
    \/ \E f \in TaskFetchChatsInputs : BeginCollection(f)
    \/ \E i \in 1..Len(TaskDialogs) : Acquire(i)
    \/ \E i \in 1..Len(TaskDialogs) : Wake(i)
    \/ \E i \in 1..Len(TaskDialogs), stream \in AllAttemptStreams :
           Attempt(i, stream)
    \/ \E i \in 1..Len(TaskDialogs) : SleepEnds(i)
    \/ \E i \in 1..Len(TaskDialogs) : Unwind(i)
    \/ JoinNext
    \/ Complete

SpecTaskFair == InitTask /\ [][NextCollection]_vars /\ FairTask

(***************************************************************************)
(* Properties of SpecTask.                                                 *)
(***************************************************************************)
\* C39: no step of a collection run - the upsert of every enumerated
\* dialog with excluded = false included - changes the excluded flag of a
\* dialog that is in the store or removes the dialog; a step that changes
\* the flag is set_chat_excluded on that dialog and nothing else.
C39_UpsertKeepsExcluded ==
    [][\A c \in DOMAIN db.chats :
           /\ c \in DOMAIN db'.chats
           /\ db'.chats[c].is_excluded # db.chats[c].is_excluded =>
                  /\ last'.op = "set_chat_excluded"
                  /\ runs' = runs
                  /\ db' = set_chat_excluded(db, c, db'.chats[c].is_excluded)]_vars

\* A collection that enumerated four dialogs ran on the three that were not
\* excluded, and the fourth is excluded still.
C39_Witness ==
    /\ runs[1].kind = "collection"
    /\ runs[1].pc = "done"
    /\ Len(runs[1].chats) = 3
    /\ Len(TaskDialogs) \in DOMAIN db.chats
    /\ db.chats[Len(TaskDialogs)].is_excluded
    /\ \A i \in 1..Len(TaskDialogs) : TaskDialogs[i].chat_id \in DOMAIN db.chats

\* The tasks past sem.acquire() that have not ended.
PastAcquire(run) ==
    {i \in 1..Len(run.tasks) : run.tasks[i].st \in {"stagger", "fetch", "sleep"}}

\* C31: within one run at most 3 tasks are past the acquisition of their
\* permit; a task holds its permit through the stagger sleep, every attempt
\* and every flood-wait sleep, and no longer: a task that returned a
\* result or an error or panicked holds none, and the permit is back in the
\* semaphore.
C31_PermitHeldUntilFetchReturned ==
    LET run == runs[1]
    IN  /\ Cardinality(PastAcquire(run)) <= 3
        /\ \A i \in 1..Len(run.tasks) :
               run.tasks[i].permit <=> i \in PastAcquire(run)
        /\ run.sem = SemaphorePermits - Cardinality(PastAcquire(run))

\* Of four tasks one panicked, one returned an error, one is in the sleep
\* of its second flood-wait and one in its stagger sleep.
C31_Witness ==
    \E i, j, k, l \in 1..Len(runs[1].tasks) :
        /\ runs[1].tasks[i].st = "panicked"
        /\ runs[1].tasks[j].st = "finished"
        /\ ~Get(runs[1].tasks[j].result).ok
        /\ runs[1].tasks[k].st = "sleep"
        /\ runs[1].tasks[k].attempt = 1
        /\ runs[1].tasks[l].st = "stagger"
        /\ runs[1].sem = 1

\* C36: a collection run has at most one terminal event and nothing after
\* it; after a failed dialog enumeration the run emitted collection-error
\* and neither collection-complete nor a message-phase progress event, and
\* stored no message; collection-complete comes when every task has been
\* joined; and every started collection run reaches its terminal event.
TerminalEvents(run) ==
    {n \in 1..Len(run.events) :
        run.events[n] \in {"collection-error", "collection-complete"}}

C36_OneTerminalEvent ==
    /\ [](LET run == runs[1]
               ev == run.events
          IN  run.kind = "collection" =>
                 /\ Cardinality(TerminalEvents(run)) <= 1
                 /\ TerminalEvents(run) \subseteq {Len(ev)}
                 /\ run.pc = "error" =>
                        /\ ev = <<"collection-progress:chats", "collection-error">>
                        /\ DOMAIN db.messages = {}
                 /\ run.pc = "running" => TerminalEvents(run) = {}
                 /\ run.pc = "done" =>
                        /\ ev[Len(ev)] = "collection-complete"
                        /\ \A i \in 1..Len(run.tasks) : run.tasks[i].st = "joined"
                        /\ \A n \in 2..(Len(ev) - 1) :
                               ev[n] = "collection-progress:messages")
    /\ (runs[1].kind = "collection") ~> (Cardinality(TerminalEvents(runs[1])) = 1)

\* A run over four dialogs ended with collection-complete after a panic, a
\* failed fetch and stored messages.
C36_Witness ==
    /\ runs[1].kind = "collection" /\ runs[1].pc = "done"
    /\ Len(runs[1].chats) = 4
    /\ runs[1].chats_done = 3
    /\ DOMAIN db.messages # {}
    /\ Len(runs[1].events) = 5

\* The tasks inside fetch_messages_with_retry.
Fetching(run) ==
    {i \in 1..Len(run.tasks) : run.tasks[i].st \in {"fetch", "sleep"}}

Count(seq, x) == Cardinality({n \in 1..Len(seq) : seq[n] = x})

\* C40: in every message-phase progress event active_chats has exactly one
\* entry per dialog whose fetch is in progress, and at most 3 entries.
C40_ActiveChatsAreTheFetching ==
    [][(runs'[1].progress # runs[1].progress /\ runs'[1].progress # None) =>
           LET run == runs'[1]
               active == Get(run.progress).active_chats
           IN  /\ Len(active) <= 3
               /\ Len(active) = Cardinality(Fetching(run))
               /\ \A i \in 1..Len(run.chats) :
                      Count(active, run.chats[i].title) =
                          Cardinality({k \in Fetching(run) :
                                          run.chats[k].title = run.chats[i].title})]_vars


(***************************************************************************)
(* Specification SpecExit: the runner tasks of connect_telegram and the    *)
(* Exit handler.  Commands run on the asynchronous runtime, where several  *)
(* invocations of connect_telegram may be under way at once, the Exit      *)
(* handler on the event loop's thread, so the exit may come between any    *)
(* two steps of a connect.                                                 *)
(*   auth.pc          : idle (the application runs) or exited              *)
(*   auth.cmds[t]     : where invocation t of connect_telegram is, and the *)
(*                      runner in its local variable                       *)
(*   auth.client      : AppState.client, the client named by its runner    *)
(*   auth.runner      : AppState.runner_handle                             *)
(*   auth.handle_lock : a connect holds the mutex of runner_handle         *)
(*   auth.live        : the runner tasks spawned and not aborted           *)
(*   auth.made        : the runner tasks spawned so far                    *)
(***************************************************************************)
InitExit ==
    /\ db = OpenStore
    /\ last = LastNone
    /\ pg = PgIdle
    /\ rt = RtIdle
    /\ runs = RunsIdle
    /\ auth = AuthIdle
    /\ steps = StepsOfOpenStore
    /\ lk = LkIdle
    /\ call = CallNone

\* JoinHandle::abort on the handle taken out of a slot or variable.
Abort(live, handle) == IF handle = None THEN live ELSE live \ {Get(handle)}

\* state.runner_handle.try_lock().ok().and_then(|mut g| g.take())
TryLockAndTake(held, slot) == IF held THEN None ELSE slot

\* connect_telegram is invoked and gets the mutex of runner_handle.
RunnerLockOld(t) ==
    /\ auth.pc = "idle"
    /\ auth.cmds[t].pc = "idle"
    /\ auth.made < MaxRunners
    /\ ~auth.handle_lock
    /\ auth' = [auth EXCEPT !.cmds[t].pc = "lock_old", !.handle_lock = TRUE]
    /\ UNCHANGED <<db, last, pg, rt, runs, steps, lk, call>>

\* .take() and old.abort(); the guard is dropped with the statement; the
\* client slot is cleared and the branch on the kept session is taken.
\* was: the tg_authenticated flag is set; removed: remove_file succeeds.
RunnerAbortOld(t, was, removed) ==
    /\ auth.pc = "idle"
    /\ auth.cmds[t].pc = "lock_old"
    /\ LET had == auth.session_file # "none"
       IN  auth' = [auth EXCEPT !.cmds[t].pc = IF was /\ had THEN "probe_connect"
                                               ELSE "fresh_connect",
                                !.handle_lock = FALSE,
                                !.runner = None,
                                !.client = None,
                                !.session_file =
                                    IF had /\ (was \/ ~removed) THEN "old"
                                    ELSE "none",
                                !.live = Abort(@, auth.runner)]
    /\ UNCHANGED <<db, last, pg, rt, runs, steps, lk, call>>

\* collector::connect returns: the runner task is spawned and its handle is
\* in the local variable, or connect_telegram returns the error.
RunnerConnect(t, connected) ==
    /\ auth.pc = "idle"
    /\ auth.cmds[t].pc \in {"probe_connect", "fresh_connect"}
    /\ connected => auth.made < MaxRunners
    /\ IF connected
       THEN auth' = [auth EXCEPT !.cmds[t] =
                                     [pc |-> IF @.pc = "probe_connect" THEN "probe"
                                             ELSE "have_fresh",
                                      local |-> Some(auth.made + 1)],
                                 !.made = @ + 1,
                                 !.session_file = IF @ = "none" THEN "new" ELSE @,
                                 !.live = @ \cup {auth.made + 1}]
       ELSE auth' = [auth EXCEPT !.cmds[t].pc = "idle"]
    /\ UNCHANGED <<db, last, pg, rt, runs, steps, lk, call>>

\* The probe ends.  authorized: the client is stored and the command
\* reaches the lock of runner_handle; otherwise runner.abort(), the session
\* file is removed (removed: remove_file succeeds) and the command goes on
\* to the fresh connection.
RunnerProbeDone(t, authorized, removed) ==
    /\ auth.pc = "idle"
    /\ auth.cmds[t].pc = "probe"
    /\ authorized => ~auth.handle_lock
    /\ IF authorized
       THEN auth' = [auth EXCEPT !.cmds[t].pc = "lock_new", !.handle_lock = TRUE,
                                 !.client = auth.cmds[t].local]
       ELSE auth' = [auth EXCEPT !.cmds[t] = [pc |-> "fresh_connect",
                                              local |-> None],
                                 !.session_file = IF removed THEN "none" ELSE @,
                                 !.live = Abort(@, auth.cmds[t].local)]
    /\ UNCHANGED <<db, last, pg, rt, runs, steps, lk, call>>

\* After the fresh connection the client is stored and the command gets
\* the mutex of runner_handle.
RunnerLockNew(t) ==
    /\ auth.pc = "idle"
    /\ auth.cmds[t].pc = "have_fresh"
    /\ ~auth.handle_lock
    /\ auth' = [auth EXCEPT !.cmds[t].pc = "lock_new", !.handle_lock = TRUE,
                            !.client = auth.cmds[t].local]
    /\ UNCHANGED <<db, last, pg, rt, runs, steps, lk, call>>

\* *guard = Some(runner): the handle that was in the slot is dropped, which
\* leaves its task running.
StoreHandle(a, t) == [a EXCEPT !.runner = a.cmds[t].local]

\* *state.runner_handle.lock().await = Some(runner), and the return.
RunnerStore(t) ==
    /\ auth.pc = "idle"
    /\ auth.cmds[t].pc = "lock_new"
    /\ auth' = [StoreHandle(auth, t) EXCEPT !.cmds[t] = [pc |-> "idle", local |-> None],
                                           !.handle_lock = FALSE]
    /\ UNCHANGED <<db, last, pg, rt, runs, steps, lk, call>>

\* RunEvent::Exit
ExitEvent ==
    /\ auth.pc = "idle"
    /\ LET handle == TryLockAndTake(auth.handle_lock, auth.runner)
       IN  auth' = [auth EXCEPT !.pc = "exited",
                                !.runner = IF auth.handle_lock THEN @ ELSE None,
                                !.live = Abort(@, handle)]
    /\ UNCHANGED <<db, last, pg, rt, runs, steps, lk, call>>

NextExit ==
    \/ \E t \in 1..MaxConnects : RunnerLockOld(t)
    \/ \E t \in 1..MaxConnects, was, removed \in BOOLEAN : RunnerAbortOld(t, was, removed)
    \/ \E t \in 1..MaxConnects, connected \in BOOLEAN : RunnerConnect(t, connected)
    \/ \E t \in 1..MaxConnects, authorized, removed \in BOOLEAN :
           RunnerProbeDone(t, authorized, removed)
    \/ \E t \in 1..MaxConnects : RunnerLockNew(t)
    \/ \E t \in 1..MaxConnects : RunnerStore(t)
    \/ ExitEvent

SpecExit == InitExit /\ [][NextExit]_vars

(***************************************************************************)
(* Properties of SpecExit.                                                 *)
(***************************************************************************)
\* C30: when the application has exited, no runner task is left that was
\* alive and not aborted, wherever a connect was at the moment of exit.
C30_ExitAbortsRunner == auth.pc = "exited" => auth.live = {}

\* C33: once every connect invocation has returned, at most one runner task
\* is live, it is the one of the runner-handle slot, and it belongs to the
\* client of the client slot.
C33_OneLiveRunner ==
    (auth.pc = "idle" /\ \A t \in 1..MaxConnects : auth.cmds[t].pc = "idle") =>
        /\ Cardinality(auth.live) <= 1
        /\ \A id \in auth.live : auth.runner = Some(id)
        /\ auth.client # None => auth.runner = auth.client

(***************************************************************************)
(* Specification SpecChat: the chats table by itself: upsert_chat followed *)
(* by get_chat, as in the store's tests, and set_chat_excluded.            *)
(*   call : the row upserted, the row stored before it, and what get_chat  *)
(*          returned after it                                              *)
(***************************************************************************)
get_chat(d, chat_id) ==
    IF chat_id \in DOMAIN d.chats THEN Some(StoredChatRow(d, chat_id)) ELSE None

\* Two versions of the row of each of two dialogs, which differ in title,
\* kind, handle and access credential, each with the flag set and unset.
ChatUpsertInputs ==
    { [chat_id |-> c, title |-> <<"a">>, chat_type |-> "group",
       username |-> None, access_hash |-> None, is_excluded |-> e] :
          c \in {1, 2}, e \in BOOLEAN }
    \cup
    { [chat_id |-> c, title |-> <<"b">>, chat_type |-> "supergroup",
       username |-> Some(<<"m", "y">>), access_hash |-> Some(7),
       is_excluded |-> e] : c \in {1, 2}, e \in BOOLEAN }

InitChat == Init

UpsertThenGet(row) ==
    /\ LET r == upsert_chat(db, row)
       IN  /\ db' = r.db
           /\ last' = LastOp("upsert_chat", r.ok)
           /\ call' = [fn |-> "get_chat",
                       args |-> <<row, get_chat(db, row.chat_id)>>,
                       out |-> get_chat(r.db, row.chat_id)]
    /\ UNCHANGED <<pg, rt, runs, auth, steps, lk>>

NextChat ==
    \/ \E row \in ChatUpsertInputs : UpsertThenGet(row)
    \/ \E c \in {1, 2}, excluded \in BOOLEAN : SetChatExcluded(c, excluded)

SpecChat == InitChat /\ [][NextChat]_vars

(***************************************************************************)
(* Properties of SpecChat.                                                 *)
(***************************************************************************)
\* C22 as claimed: upsert_chat(r) followed by get_chat(r.id) returns title,
\* kind, handle, access credential and excluded flag of r, whether or not a
\* dialog with that id existed.
C22_UpsertThenGetAllAttributes ==
    call.fn = "get_chat" => call.out = Some(call.args[1])

\* C22: upsert_chat(r) followed by get_chat(r.id) returns title, kind,
\* handle and access credential of r; the excluded flag returned is that of
\* r when no dialog with that id existed, and the flag stored before the
\* upsert when one did.
C22_UpsertThenGet ==
    call.fn = "get_chat" =>
        LET r == call.args[1]
            before == call.args[2]
        IN  call.out =
                Some([r EXCEPT !.is_excluded =
                         IF before = None THEN r.is_excluded
                         ELSE Get(before).is_excluded])

\* An upsert over a stored, excluded dialog that changes title, kind,
\* handle and credential and carries the flag unset.
C22_Witness ==
    /\ call.fn = "get_chat"
    /\ call.args[2] # None
    /\ Get(call.args[2]).is_excluded
    /\ ~call.args[1].is_excluded
    /\ Get(call.args[2]).title # call.args[1].title
    /\ Get(call.args[2]).chat_type # call.args[1].chat_type
    /\ Get(call.args[2]).username # call.args[1].username
    /\ Get(call.args[2]).access_hash # call.args[1].access_hash
    /\ Get(call.out).title = call.args[1].title
    /\ Get(call.out).is_excluded

(***************************************************************************)
(* Highlights.  A text is a sequence of characters; ranges count bytes of  *)
(* its UTF-8 encoding.  Beside ASCII the alphabet has U+0130 (capital I    *)
(* with dot above, 2 bytes), whose lowercase is "i" followed by U+0307     *)
(* (combining dot above, 2 bytes), and the Hangul syllable U+C0BC          *)
(* (3 bytes, no case).                                                     *)
(***************************************************************************)
len_utf8(ch) ==
    CASE ch \in {"U+0130", "U+0307"} -> 2
      [] ch = "U+C0BC" -> 3
      [] OTHER -> 1

\* str::len: the length in bytes.
RECURSIVE ByteLen(_)
ByteLen(s) == IF s = <<>> THEN 0 ELSE len_utf8(Head(s)) + ByteLen(Tail(s))

\* char::to_lowercase
LowerChar(ch) ==
    CASE ch = "U+0130" -> <<"i", "U+0307">>
      [] ch = "A" -> <<"a">>
      [] ch = "B" -> <<"b">>
      [] ch = "C" -> <<"c">>
      [] ch = "X" -> <<"x">>
      [] OTHER -> <<ch>>

\* str::to_lowercase
RECURSIVE to_lowercase(_)
to_lowercase(s) ==
    IF s = <<>> THEN <<>> ELSE LowerChar(Head(s)) \o to_lowercase(Tail(s))

\* str::find from the i-th character on: the position of the first match,
\* 0 if there is none.
RECURSIVE FindFrom(_, _, _)
FindFrom(hay, needle, i) ==
    IF i + Len(needle) - 1 > Len(hay) THEN 0
    ELSE IF SubSeq(hay, i, i + Len(needle) - 1) = needle THEN i
    ELSE FindFrom(hay, needle, i + 1)

Range(start, end) == [start |-> start, end |-> end]

\* The while loop of find_highlights for one token; search_from is kept as
\* a character position, the ranges are byte offsets into text_lower.
RECURSIVE TokenRanges(_, _, _, _)
TokenRanges(text_lower, token_lower, search_from, ranges) ==
    LET pos == FindFrom(text_lower, token_lower, search_from)
        byte_start == ByteLen(SubSeq(text_lower, 1, pos - 1))
        byte_end == byte_start + ByteLen(token_lower)
    IN  IF pos = 0 THEN ranges
        ELSE TokenRanges(text_lower, token_lower, pos + Len(token_lower),
                         Append(ranges, Range(byte_start, byte_end)))

\* The for loop over the tokens.
RECURSIVE AllTokenRanges(_, _, _)
AllTokenRanges(text_lower, tokens, ranges) ==
    IF tokens = <<>> THEN ranges
    ELSE LET token_lower == to_lowercase(Head(tokens))
         IN  AllTokenRanges(text_lower, Tail(tokens),
                 IF token_lower = <<>> THEN ranges
                 ELSE TokenRanges(text_lower, token_lower, 1, ranges))

\* ranges.sort_by_key(|r| r.start): a stable sort.
RECURSIVE SortByStart(_)
SortByStart(ranges) ==
    IF ranges = <<>> THEN <<>>
    ELSE LET r == ranges[Len(ranges)]
             sorted == SortByStart(SubSeq(ranges, 1, Len(ranges) - 1))
         IN  SelectSeq(sorted, LAMBDA q : q.start <= r.start) \o <<r>>
             \o SelectSeq(sorted, LAMBDA q : q.start > r.start)

RECURSIVE MergeFrom(_, _, _)
MergeFrom(ranges, i, merged) ==
    IF i > Len(ranges) THEN merged
    ELSE LET r == ranges[i]
             last_range == merged[Len(merged)]
         IN  IF r.start <= last_range.end
             THEN MergeFrom(ranges, i + 1,
                            [merged EXCEPT ![Len(merged)].end =
                                IF r.end > last_range.end THEN r.end ELSE last_range.end])
             ELSE MergeFrom(ranges, i + 1, Append(merged, r))

merge_overlapping(ranges) ==
    IF Len(ranges) <= 1 THEN ranges ELSE MergeFrom(ranges, 2, <<ranges[1]>>)

find_highlights(text, tokens) ==
    LET text_lower == to_lowercase(text)
    IN  merge_overlapping(SortByStart(AllTokenRanges(text_lower, tokens, <<>>)))

(***************************************************************************)
(* Specification SpecFn: the pure functions, each applied to arguments     *)
(* drawn from the values its callers can pass.                             *)
(*   call : the function applied last, its arguments and what it returned  *)
(***************************************************************************)
\* Dialog ids: i64::MIN, a channel (-100 prefix), the ids next to -10^12,
\* a user id, 0, an id above 10^12 and i64::MAX.
LinkChatIdInputs ==
    { I64_MIN, I64_MAX, I64(12345), I64(0), I64(-12345),
      [neg |-> TRUE, mag |-> Mag(1, 1234, 567890)],
      [neg |-> TRUE, mag |-> Mag(1, 0, 0)],
      [neg |-> TRUE, mag |-> Mag(1, 0, 1)],
      [neg |-> TRUE, mag |-> Mag(0, 999999, 999999)],
      [neg |-> FALSE, mag |-> Mag(1, 0, 7)] }

UsernameInputs == {None, Some(<<>>), Some(<<"m", "y">>)}

LinkMessageIdInputs == {I64(42), I64(1000000)}

ChatTypeInputs == {"dm", "group", "supergroup", "channel"}

InitFn ==
    /\ db = OpenStore
    /\ last = LastNone
    /\ pg = PgIdle
    /\ rt = RtIdle
    /\ runs = RunsIdle
    /\ auth = AuthIdle
    /\ steps = StepsOfOpenStore
    /\ lk = LkIdle
    /\ call = CallNone

BuildLink(chat_id, username, message_id, chat_type) ==
    /\ call' = [fn |-> "build_link",
                args |-> <<chat_id, username, message_id, chat_type>>,
                out |-> build_link(chat_id, username, message_id, chat_type)]
    /\ UNCHANGED <<db, last, pg, rt, runs, auth, steps, lk>>

\* Texts: empty, the text of test_overlapping_ranges_merged, one with a
\* capital and a blank, one that starts with U+0130, one with a Hangul
\* syllable.
HighlightTextInputs ==
    { <<>>, <<"a", "b", "c", "a", "b", "c">>, s_Ab_c, <<"U+0130", "x">>,
      <<"U+C0BC", "a", "b">> }

\* The terms of a query, as split_whitespace gives them.
HighlightTokenInputs ==
    { <<>>, << <<"a", "b", "c">>, <<"b", "c", "a">> >>, << <<"x">> >>,
      << <<"A", "B">> >>, << <<"b">>, <<"a">> >>, << <<"U+C0BC">>, <<"b">> >>,
      << <<"c">>, <<"a", "b">> >> }

FindHighlights(text, tokens) ==
    /\ call' = [fn |-> "find_highlights", args |-> <<text, tokens>>,
                out |-> find_highlights(text, tokens)]
    /\ UNCHANGED <<db, last, pg, rt, runs, auth, steps, lk>>

\* Dialogs as the dialog-list fetch names them: a channel (-100 prefix), a
\* small group, groups with the ids -10^12 + 1, -10^12 and -10^12 - 1, and
\* a user.
SortDialogInputs ==
    { [chat_id |-> [neg |-> TRUE, mag |-> Mag(1, 1234, 567890)], chat_type |-> "supergroup"],
      [chat_id |-> I64(-5), chat_type |-> "group"],
      [chat_id |-> [neg |-> TRUE, mag |-> Mag(0, 999999, 999999)], chat_type |-> "group"],
      [chat_id |-> [neg |-> TRUE, mag |-> Mag(1, 0, 0)], chat_type |-> "group"],
      [chat_id |-> [neg |-> TRUE, mag |-> Mag(1, 0, 1)], chat_type |-> "group"],
      [chat_id |-> I64(12345), chat_type |-> "dm"] }

\* Lists of up to MaxSorted different dialogs, in any order.
SortListInputs ==
    UNION {{f \in [1..n -> SortDialogInputs] :
               \A i, j \in 1..n : i # j => f[i] # f[j]} : n \in 0..MaxSorted}

\* chats.sort_by_key(..) of run_collection, on dialogs with their full ids.
SortChats(chats) ==
    /\ call' = [fn |-> "sort_by_key", args |-> <<chats>>,
                out |-> sort_by_key(chats,
                            [i \in 1..Len(chats) |->
                                PriorityKey(chats[i].chat_type, chats[i].chat_id)])]
    /\ UNCHANGED <<db, last, pg, rt, runs, auth, steps, lk>>

\* Message texts with and without the characters LIKE treats specially.
LikeTextInputs ==
    { s_abc, s_Ab_c, <<"a", "_", "c">>, <<"a", "%">>, <<"c">> }

\* Queries with a term of fewer than FtsMinChars characters.
LikeQueryInputs ==
    { <<"_">>, <<"%">>, <<"a", "b">>, <<"_", "c">>, <<"b", " ", "c">>,
      <<"a", "%">>, <<"a", "b", "c", " ", "_">>, <<"b", "d">> }

\* A store of one dialog whose messages have the given texts.
LikeStore(texts) ==
    insert_messages_batch(
        UpsertAll(OpenStore, SubSeq(Dialogs, 1, 1), 1),
        [j \in 1..Len(texts) |-> MessageRow(1, j, 1000 + j, texts[j])]).db

\* search over all chats, first page, on a store with the given texts.
SearchTexts(texts, query) ==
    /\ call' = [fn |-> "search", args |-> <<texts, query>>,
                out |-> search(LikeStore(texts), query, None, None, None).items]
    /\ UNCHANGED <<db, last, pg, rt, runs, auth, steps, lk>>

NextFn ==
    \/ \E t1, t2 \in LikeTextInputs, query \in LikeQueryInputs :
           SearchTexts(<<t1, t2>>, query)
    \/ \E chats \in SortListInputs : SortChats(chats)
    \/ \E text \in HighlightTextInputs, tokens \in HighlightTokenInputs :
           FindHighlights(text, tokens)
    \/ \E chat_id \in LinkChatIdInputs, username \in UsernameInputs,
          message_id \in LinkMessageIdInputs, chat_type \in ChatTypeInputs :
           BuildLink(chat_id, username, message_id, chat_type)

SpecFn == InitFn /\ [][NextFn]_vars

(***************************************************************************)
(* Properties of SpecFn.                                                   *)
(***************************************************************************)
\* C37: on the substring-scan path (some term of the query is shorter than
\* 3 characters) every message returned contains every term of the query
\* as a literal substring; % and _ in a term stand for themselves only.
C37_SubstringScanSound ==
    (call.fn = "search" /\ ~UseFts(split_whitespace(trim(call.args[2])))) =>
        \A j \in 1..Len(call.out) :
            \A k \in 1..Len(split_whitespace(trim(call.args[2]))) :
                Contains(call.out[j].text, split_whitespace(trim(call.args[2]))[k])

\* |dialog id| - 10^12, saturating at 0: the top limb counts units of 10^12.
ChannelOf(chat_id) ==
    IF chat_id.mag[1] >= 1
    THEN Mag(chat_id.mag[1] - 1, chat_id.mag[2], chat_id.mag[3])
    ELSE Mag(0, 0, 0)

\* C21: build_link answers every (dialog id, optional handle, message id,
\* kind) by the first rule that applies: dm with a non-empty handle gives
\* https://t.me/{handle}; dm otherwise tg://user?id={dialog id}; non-dm with
\* a non-empty handle https://t.me/{handle}/{message id}; non-dm otherwise
\* tg://privatepost?channel={c}&post={message id}, c = |dialog id| - 10^12
\* saturating at 0.  An empty handle counts as an absent one.
C21_BuildLinkRules ==
    call.fn = "build_link" =>
        LET chat_id == call.args[1]
            handle == IF call.args[2] = None THEN <<>> ELSE Get(call.args[2])
            message_id == call.args[3]
            kind == call.args[4]
        IN  call.out =
                CASE kind = "dm" /\ handle # <<>> -> <<"https://t.me/">> \o handle
                  [] kind = "dm" /\ handle = <<>> ->
                         <<"tg://user?id=">> \o FormatI64(chat_id)
                  [] kind # "dm" /\ handle # <<>> ->
                         <<"https://t.me/">> \o handle \o <<"/">>
                         \o FormatI64(message_id)
                  [] kind # "dm" /\ handle = <<>> ->
                         <<"tg://privatepost?channel=">>
                         \o FormatU64(ChannelOf(chat_id)) \o <<"&post=">>
                         \o FormatI64(message_id)

\* The private link of test_private_link_empty_username: dialog
\* -1001234567890 with an empty handle, message 42.
C21_Witness ==
    /\ call.fn = "build_link"
    /\ call.args = << [neg |-> TRUE, mag |-> Mag(1, 1234, 567890)], Some(<<>>),
                      I64(42), "supergroup" >>
    /\ call.out = << "tg://privatepost?channel=",
                     "1", "2", "3", "4", "5", "6", "7", "8", "9", "0",
                     "&post=", "4", "2" >>

\* The priority class of a dialog: 0 kind supergroup, 1 kind group with
\* id > -10^12, 2 the other dialogs that are no dm, 3 kind dm.  An id is
\* <= -10^12 when it is negative and its magnitude has a unit of 10^12.
ClassOf(chat) ==
    IF chat.chat_type = "supergroup" THEN 0
    ELSE IF chat.chat_type = "dm" THEN 3
    ELSE IF chat.chat_type = "group" /\ ~(chat.chat_id.neg /\ chat.chat_id.mag[1] >= 1)
    THEN 1
    ELSE 2

InClass(chats, k) == SelectSeq(chats, LAMBDA chat : ClassOf(chat) = k)

\* C28: the list handed to the scheduler is the enumerated list ordered by
\* priority class, the dialogs of one class in their enumeration order.
C28_SortedByPriorityClass ==
    call.fn = "sort_by_key" =>
        call.out = InClass(call.args[1], 0) \o InClass(call.args[1], 1)
                   \o InClass(call.args[1], 2) \o InClass(call.args[1], 3)

\* A list with a dialog of each class, enumerated in the reverse order.
C28_Witness ==
    /\ call.fn = "sort_by_key"
    /\ Len(call.args[1]) = 3
    /\ ClassOf(call.args[1][1]) = 2
    /\ ClassOf(call.args[1][2]) = 1
    /\ ClassOf(call.args[1][3]) = 0
    /\ call.out = <<call.args[1][3], call.args[1][2], call.args[1][1]>>

\* The occurrences of a term in a text, scanned left to right without
\* self-overlap, as ranges of the text's bytes: characters i..j of the text
\* are an occurrence when their lowercase is the term's lowercase.
RECURSIVE Occurrences(_, _, _)
Occurrences(text, term, from) ==
    LET hits == {p \in (from..Len(text)) \X (from..Len(text)) :
                    /\ p[1] <= p[2]
                    /\ to_lowercase(SubSeq(text, p[1], p[2])) = to_lowercase(term)}
    IN  IF hits = {} THEN {}
        ELSE LET p == CHOOSE h \in hits :
                          \A g \in hits : h[1] < g[1] \/ (h[1] = g[1] /\ h[2] <= g[2])
             IN  {Range(ByteLen(SubSeq(text, 1, p[1] - 1)),
                        ByteLen(SubSeq(text, 1, p[2])))}
                 \cup Occurrences(text, term, p[2] + 1)

\* The bytes a set or sequence of ranges covers.
Covered(ranges) == UNION {r.start..(r.end - 1) : r \in ranges}

SeqRange(s) == {s[i] : i \in 1..Len(s)}

\* C24: the ranges find_highlights returns are sorted by start, lie inside
\* the text, each starts strictly after the one before it ends, and
\* together cover exactly the bytes of the case-insensitive occurrences of
\* the terms in the text.
C24_HighlightsCoverOccurrences ==
    call.fn = "find_highlights" =>
        LET text == call.args[1]
            tokens == call.args[2]
            ranges == call.out
        IN  /\ \A i \in 1..Len(ranges) :
                   /\ ranges[i].start < ranges[i].end
                   /\ ranges[i].end <= ByteLen(text)
            /\ \A i \in 1..(Len(ranges) - 1) : ranges[i].end < ranges[i + 1].start
            /\ Covered(SeqRange(ranges)) =
                   Covered(UNION {Occurrences(text, tokens[j], 1) : j \in 1..Len(tokens)})

====
